---- MODULE Spec2Model ----
(***************************************************************************)
(* Model of the ydl subtitle pipeline: track discovery (SubtitleExtractor  *)
(* and YouTubeSubtitleExtractor), track filtering and track selection.     *)
(* One action per request (await point) of Ydl::subtitle; the synchronous  *)
(* code between two requests belongs to the action of the earlier request. *)
(***************************************************************************)
EXTENDS Integers, Sequences, FiniteSets, TLC

\* Longest caption-track list an upstream player response carries.
MaxTracks == 2

\* Language codes the upstream may announce / the caller may prefer.
Langs == {"en", "es"}

\* options.language = None
NoLanguage == "none"

\* SubtitleTrackType
Manual == "Manual"
AutoGenerated == "AutoGenerated"

\* YdlError kinds met in discovery
NoSubtitlesAvailable == "NoSubtitlesAvailable"
OnlyAutoGenerated == "OnlyAutoGenerated"
Network == "Network"
SubtitleDiscoveryError == "SubtitleDiscoveryError"
MetadataParsingError == "MetadataParsingError"
VideoNotFound == "VideoNotFound"
VideoRestricted == "VideoRestricted"
RateLimited == "RateLimited"
ServiceUnavailable == "ServiceUnavailable"

\* YdlResult<Vec<SubtitleTrack>>
Ok(ts) == [ok |-> TRUE, err |-> "", tracks |-> ts]
Err(e) == [ok |-> FALSE, err |-> e, tracks |-> <<>>]

\* YdlOptions: the three preferences that steer filtering and selection.
YdlOptions == [language : Langs \cup {NoLanguage},
               allow_auto_generated : BOOLEAN,
               prefer_manual : BOOLEAN]

(***************************************************************************)
(* Upstream: caption tracks of a player response and HTTP responses.       *)
(***************************************************************************)
\* A URL is a sequence of tokens; "fmt=" is the token contains("fmt=") finds.
BaseUrls == {<<"base_url">>}

\* CaptionTrack of a PlayerResponse: kind is Some("asr") or something else.
CaptionTrack == [language_code : Langs, kind : {"asr", "standard"}, base_url : BaseUrls]

\* captions / tracklist renderer / caption_tracks absent reads as the empty list.
CaptionLists == UNION {[1..n -> CaptionTrack] : n \in 0..MaxTracks}

\* Non-success statuses an upstream answers with.
FailStatuses == {403, 404, 429, 500, 503}

\* What one request can come back with: send() fails, a non-success status,
\* a success whose body holds no decodable player data, or player data.
Responses ==
       {[kind |-> "transport", status |-> 0, caption_tracks |-> <<>>]}
  \cup {[kind |-> "status", status |-> s, caption_tracks |-> <<>>] : s \in FailStatuses}
  \cup {[kind |-> "undecodable", status |-> 200, caption_tracks |-> <<>>]}
  \cup {[kind |-> "player", status |-> 200, caption_tracks |-> c] : c \in CaptionLists}

(***************************************************************************)
(* Pure helpers of the extractor.                                          *)
(***************************************************************************)
Contains(url, tok) == \E i \in 1..Len(url) : url[i] = tok

\* kind == Some("asr") -> AutoGenerated, else Manual
TrackType(c) == IF c.kind = "asr" THEN AutoGenerated ELSE Manual

\* InnerTubeClient::extract_subtitle_tracks: one track per caption track, in
\* order, "&fmt=srv3" appended to a base_url without fmt=.
InnerTubeUrl(base_url) ==
  IF Contains(base_url, "fmt=") THEN base_url ELSE base_url \o <<"&", "fmt=", "srv3">>

extract_subtitle_tracks(caption_tracks) ==
  [i \in 1..Len(caption_tracks) |->
     [language_code |-> caption_tracks[i].language_code,
      track_type |-> TrackType(caption_tracks[i]),
      url |-> InnerTubeUrl(caption_tracks[i].base_url)]]

\* A mapping that types no status: every status is a discovery error.
map_http_error_Untyped(status) == SubtitleDiscoveryError

\* SubtitleExtractor::map_http_error
map_http_error(status) ==
  CASE status = 404 -> VideoNotFound
    [] status = 403 -> VideoRestricted
    [] status = 429 -> RateLimited
    [] status = 503 -> ServiceUnavailable
    [] OTHER -> SubtitleDiscoveryError

\* SubtitleExtractor::extract_tracks_from_player_response
extract_tracks_from_player_response(caption_tracks) ==
  LET ts == [i \in 1..Len(caption_tracks) |->
               [language_code |-> caption_tracks[i].language_code,
                track_type |-> TrackType(caption_tracks[i]),
                url |-> caption_tracks[i].base_url]]
  IN IF ts = <<>> THEN Err(NoSubtitlesAvailable) ELSE Ok(ts)

\* The simple timedtext URL the watch-page strategy builds per track.
SimpleUrl(lang) == <<"timedtext", "?", "v=", "&", "lang=", lang>>

\* InnerTubeClient::get_player: the result of one profile's player request.
get_player(resp) ==
  CASE resp.kind = "transport" -> Err(Network)
    [] resp.kind = "status" -> Err(SubtitleDiscoveryError)
    [] resp.kind = "undecodable" -> Err(Network)
    [] OTHER -> Ok(resp.caption_tracks)

\* SubtitleExtractor::discover_from_watch_page
discover_from_watch_page(resp) ==
  CASE resp.kind = "transport" -> Err(Network)
    [] resp.kind = "status" -> Err(map_http_error(resp.status))
    [] resp.kind = "undecodable" -> Err(MetadataParsingError)
    [] OTHER ->
         LET ts == [i \in 1..Len(resp.caption_tracks) |->
                      [language_code |-> resp.caption_tracks[i].language_code,
                       track_type |-> TrackType(resp.caption_tracks[i]),
                       url |-> SimpleUrl(resp.caption_tracks[i].language_code)]]
         IN IF ts = <<>>
              THEN extract_tracks_from_player_response(resp.caption_tracks)
              ELSE Ok(ts)

\* SubtitleExtractor::discover_from_mobile_page
discover_from_mobile_page(resp) ==
  CASE resp.kind = "transport" -> Err(Network)
    [] resp.kind = "status" -> Err(map_http_error(resp.status))
    [] resp.kind = "undecodable" -> Err(MetadataParsingError)
    [] OTHER -> extract_tracks_from_player_response(resp.caption_tracks)

\* SubtitleExtractor::discover_from_api (legacy get_video_info endpoint)
discover_from_api(resp) ==
  CASE resp.kind = "transport" -> Err(Network)
    [] resp.kind = "status" -> Err(SubtitleDiscoveryError)
    [] resp.kind = "undecodable" -> Err(SubtitleDiscoveryError)
    [] OTHER -> extract_tracks_from_player_response(resp.caption_tracks)

(***************************************************************************)
(* Track filtering and selection (pure functions of tracks and options).   *)
(***************************************************************************)
\* Mutant: the language step narrows even when no track has the language.
FilterByLanguage_Strict(tracks, o) ==
  IF o.language # NoLanguage
    THEN SelectSeq(tracks, LAMBDA t : t.language_code = o.language)
    ELSE tracks

\* filter_tracks, language step: narrow to the preferred language when some
\* track has it.
FilterByLanguage(tracks, o) ==
  IF o.language # NoLanguage
    THEN LET lang_matches == SelectSeq(tracks, LAMBDA t : t.language_code = o.language)
         IN IF lang_matches # <<>> THEN lang_matches ELSE tracks
    ELSE tracks

\* Mutant: the track-type step retains every track.
FilterByTrackType_KeepAll(tracks, o) == tracks

\* filter_tracks, track-type step: retain the non-auto-generated tracks.
FilterByTrackType(tracks, o) ==
  IF ~o.allow_auto_generated
    THEN SelectSeq(tracks, LAMBDA t : t.track_type # AutoGenerated)
    ELSE tracks

\* Mutant: the prefer-manual step narrows even when no manual track is left.
FilterPreferManual_Strict(tracks, o) ==
  IF o.prefer_manual
    THEN SelectSeq(tracks, LAMBDA t : t.track_type = Manual)
    ELSE tracks

\* filter_tracks, prefer-manual step: narrow to manual tracks when there are some.
FilterPreferManual(tracks, o) ==
  IF o.prefer_manual
    THEN LET manual_tracks == SelectSeq(tracks, LAMBDA t : t.track_type = Manual)
         IN IF manual_tracks # <<>> THEN manual_tracks ELSE tracks
    ELSE tracks

\* Mutant: an empty filtered list always reads as "no subtitles".
FilterOutcome_NoSubtitles(filtered, o) ==
  IF filtered = <<>> THEN Err(NoSubtitlesAvailable) ELSE Ok(filtered)

\* A tail that returns whatever is left, an empty list included.
FilterOutcome_OkEmpty(filtered, o) == Ok(filtered)

\* filter_tracks, final step: the error an empty filtered list maps to.
FilterOutcome(filtered, o) ==
  IF filtered = <<>>
    THEN IF ~o.allow_auto_generated THEN Err(OnlyAutoGenerated)
                                    ELSE Err(NoSubtitlesAvailable)
    ELSE Ok(filtered)

\* SubtitleExtractor::filter_tracks
filter_tracks(tracks, o) ==
  IF tracks = <<>>
    THEN Err(NoSubtitlesAvailable)
    ELSE FilterOutcome(
           FilterPreferManual(FilterByTrackType(FilterByLanguage(tracks, o), o), o), o)

\* iter().find(..) on the elements hits that satisfy the predicate, in list
\* order: the first of them, as an Option (<<>> is None, <<t>> is Some(t)).
Find(hits) == IF hits = <<>> THEN <<>> ELSE <<Head(hits)>>

\* Mutant: the search runs from the back of the list (rfind / last).
select_best_track_FromBack(tracks, o) ==
  LET Last(q) == IF q = <<>> THEN <<>> ELSE <<q[Len(q)]>>
      inLang == SelectSeq(tracks, LAMBDA t : t.language_code = o.language)
      manual == SelectSeq(tracks, LAMBDA t : t.track_type = Manual)
      manualInLang == SelectSeq(inLang, LAMBDA t : t.track_type = Manual)
  IN IF tracks = <<>> THEN <<>>
     ELSE IF o.language # NoLanguage /\ o.prefer_manual /\ manualInLang # <<>>
       THEN Last(manualInLang)
     ELSE IF o.language # NoLanguage /\ inLang # <<>> THEN Last(inLang)
     ELSE IF o.prefer_manual /\ manual # <<>> THEN Last(manual)
     ELSE Last(tracks)

\* SubtitleExtractor::select_best_track
select_best_track(tracks, o) ==
  LET manualInLang == Find(SelectSeq(tracks, LAMBDA t : t.language_code = o.language
                                                         /\ t.track_type = Manual))
      anyInLang == Find(SelectSeq(tracks, LAMBDA t : t.language_code = o.language))
      anyManual == Find(SelectSeq(tracks, LAMBDA t : t.track_type = Manual))
  IN IF tracks = <<>> THEN <<>>
     ELSE IF o.language # NoLanguage /\ o.prefer_manual /\ manualInLang # <<>>
       THEN manualInLang
     ELSE IF o.language # NoLanguage /\ anyInLang # <<>> THEN anyInLang
     ELSE IF o.prefer_manual /\ anyManual # <<>> THEN anyManual
     ELSE <<Head(tracks)>>

(***************************************************************************)
(* State of one Ydl::subtitle call.                                        *)
(***************************************************************************)
VARIABLES
  pc,          \* where the call stands: the request it is about to issue
  options,     \* self.options
  client_idx,  \* position of the client loop in self.clients (1-based)
  client_err,  \* error of the latest profile request ("" if none)
  yield_client,\* history: the profile whose response held tracks ("" if none)
  tracks,      \* discover_tracks' local accumulator
  issued,      \* history: the discovery requests issued so far, in order
  yielded,     \* history: the tracks each strategy returned Ok with
  outcome,     \* history: how each strategy ended ("untried", "Ok" or an error)
  discovered,  \* what discover_tracks returned
  selected,    \* Option<&SubtitleTrack> chosen by select_best_track
  error        \* the error Ydl::subtitle returned ("" if none)

VARIABLES
  fetched,     \* history: the download requests issued so far, in order
  raw_content, \* the content download_content returned (<<>> if none)
  output,      \* the text the call returned (<<>> if none)
  wrapped,     \* TRUE iff the call entered through subtitle_with_retry
  max_retries, \* self.options.max_retries
  retries,     \* subtitle_with_retry's local counter
  trail,       \* history: the attempts and sleeps of subtitle_with_retry
  given,       \* the input drawn for a function applied on its own
  call,        \* a pure function applied on its own: its name and input
  ret          \* what that function returned

VARIABLES
  files,            \* the paths the process has written on the file system
  debug_assertions, \* cfg(debug_assertions): TRUE in a debug build
  extractor_options \* self.extractor.options: the clone Ydl::new handed over

fetchVars == <<fetched, raw_content, output>>
retryVars == <<wrapped, max_retries, retries, trail>>
pureVars == <<given, call, ret>>
buildVars == <<files, debug_assertions, extractor_options>>

vars == <<pc, options, client_idx, client_err, yield_client, tracks, issued, yielded, outcome,
          discovered, selected, error, fetchVars, retryVars, pureVars, buildVars>>

\* Mutant: the Web profile is queried before the TV-embedded one.
clients_WebFirst == <<"Web", "TvEmbedded", "Ios", "Android">>

\* YouTubeSubtitleExtractor::new: the client profiles in fallback order.
clients == <<"TvEmbedded", "Web", "Ios", "Android">>

\* The four strategies of discover_tracks, in source order.
Methods == <<"innertube", "watch", "mobile", "api">>

Pending == [ok |-> FALSE, err |-> "pending", tracks |-> <<>>]

\* No pure function has been applied on its own.
NoCall == [fn |-> "none"]

\* Nothing fetched, no retry wrapper, no pure call, nothing written: the
\* state a fresh Ydl holds outside discovery.
FreshInit ==
  /\ fetched = <<>>
  /\ raw_content = <<>>
  /\ output = <<>>
  /\ wrapped = FALSE
  /\ max_retries = 0
  /\ retries = 0
  /\ trail = <<>>
  /\ call = NoCall
  /\ ret = NoCall
  /\ files = {}

\* The same in a release build.
IdleInit == FreshInit /\ debug_assertions = FALSE

\* The same, with no input drawn.
RestInit == IdleInit /\ given = <<>>

\* discover_tracks has not run: its locals and the histories are empty.
DiscoveryInit ==
  /\ client_idx = 1
  /\ client_err = ""
  /\ yield_client = ""
  /\ tracks = <<>>
  /\ issued = <<>>
  /\ yielded = [k \in 1..4 |-> <<>>]
  /\ outcome = [k \in 1..4 |-> "untried"]
  /\ discovered = Pending
  /\ selected = <<>>
  /\ error = ""

Init ==
  /\ pc = "start"
  /\ options \in YdlOptions
  /\ DiscoveryInit
  /\ RestInit
  /\ extractor_options = options

\* Mutant: the fallbacks lose their tracks.is_empty() guard.
AfterMethod_Unguarded(k, t) ==
  IF k < 4 THEN Methods[k + 1] ELSE "filter"

\* Mutant: discovery gives up after the first strategy.
AfterMethod_ShortCircuit(k, t) == "filter"

\* discover_tracks: where control goes once method k is over and the
\* accumulator holds t: the next method if its guard tracks.is_empty() holds,
\* else on to filter_tracks.
AfterMethod(k, t) ==
  IF k < 4 /\ t = <<>> THEN Methods[k + 1] ELSE "filter"

\* YdlError::is_retryable: transport failures, rate limiting and service
\* unavailability are retryable, every other kind is terminal.
is_retryable(e) == e \in {Network, RateLimited, ServiceUnavailable}

\* The retry_after that map_http_error puts into RateLimited.
retry_after == 60

\* YdlError::retry_delay: the server-signalled delay of a rate limit, None
\* for the other kinds.
retry_delay(e) == IF e = RateLimited THEN <<retry_after>> ELSE <<>>

\* Option::unwrap_or
unwrap_or(opt, d) == IF opt = <<>> THEN d ELSE opt[1]

\* A loop that retries every error while retries remain.
retry_step_RetryAll(e, r, m) ==
  IF r >= m THEN [again |-> FALSE, retries |-> r] ELSE [again |-> TRUE, retries |-> r + 1]

\* A loop that compares with > and so allows one retry more.
retry_step_OffByOne(e, r, m) ==
  IF r > m THEN [again |-> FALSE, retries |-> r]
  ELSE IF is_retryable(e) THEN [again |-> TRUE, retries |-> r + 1]
  ELSE [again |-> FALSE, retries |-> r]

\* The Err arm of subtitle_with_retry's match, for error e, retries r and
\* max_retries m: return the error, or count a retry and go round again.
retry_step(e, r, m) ==
  IF r >= m THEN [again |-> FALSE, retries |-> r]
  ELSE IF is_retryable(e) THEN [again |-> TRUE, retries |-> r + 1]
  ELSE [again |-> FALSE, retries |-> r]

\* One event of the trail: an attempt that ended with err ("" for Ok), or a
\* sleep of delay seconds.
AttemptEvent(e) == [ev |-> "attempt", err |-> e, delay |-> 0]
SleepEvent(d) == [ev |-> "sleep", err |-> "", delay |-> d]

\* Ydl::subtitle returns Err(e).  Called directly the error is the caller's;
\* inside subtitle_with_retry the Err arm decides between returning it and
\* sleeping before the next attempt.
Fail(e) ==
  IF wrapped
    THEN LET s == retry_step(e, retries, max_retries)
         IN /\ retries' = s.retries
            /\ trail' = Append(trail, AttemptEvent(e))
            /\ pc' = IF s.again THEN "sleep" ELSE "failed"
            /\ error' = IF s.again THEN "" ELSE e
            /\ UNCHANGED <<wrapped, max_retries>>
    ELSE /\ pc' = "failed"
         /\ error' = e
         /\ UNCHANGED retryVars

\* The synchronous tail of Ydl::subtitle after discover_tracks returned d:
\* propagate the error, or select the track to download.
AfterDiscovery(d) ==
  LET best == IF d.ok THEN select_best_track(d.tracks, extractor_options) ELSE <<>>
  IN /\ discovered' = d
     /\ selected' = best
     /\ IF d.ok /\ d.tracks # <<>> /\ best # <<>>
          THEN /\ pc' = "download"
               /\ error' = ""
               /\ UNCHANGED retryVars
          ELSE Fail(IF ~d.ok THEN d.err ELSE NoSubtitlesAvailable)

\* Method k of discover_tracks ended with result r (if let Ok(..) = r extends
\* the accumulator); run on to the next request or to the end of discovery.
EndMethod(k, r) ==
  LET t == IF r.ok THEN tracks \o r.tracks ELSE tracks
  IN /\ tracks' = t
     /\ yielded' = [yielded EXCEPT ![k] = r.tracks]
     /\ outcome' = [outcome EXCEPT ![k] = IF r.ok THEN "Ok" ELSE r.err]
     /\ IF AfterMethod(k, t) = "filter"
          THEN AfterDiscovery(filter_tracks(t, extractor_options))
          ELSE /\ pc' = AfterMethod(k, t)
               /\ UNCHANGED <<discovered, selected, error, retryVars>>

\* Ydl::has_subtitles, from what its discover_tracks call returned.
has_subtitles(d) == IF d.ok THEN d.tracks # <<>> ELSE FALSE

\* Ydl::subtitle is called: discover_tracks starts with an empty accumulator
\* and enters the client loop of the InnerTube strategy.
Subtitle ==
  /\ pc \in {"start", "constructed"}
  /\ pc' = "innertube"
  /\ UNCHANGED <<options, client_idx, client_err, yield_client, tracks, issued,
                 yielded, outcome, discovered, selected, error>>
  /\ UNCHANGED <<fetchVars, retryVars, pureVars>>
  /\ UNCHANGED buildVars

\* One iteration of the client loop of YouTubeSubtitleExtractor::discover_tracks.
GetPlayer(resp) ==
  /\ pc = "innertube"
  /\ issued' = Append(issued, clients[client_idx])
  /\ UNCHANGED <<options, fetchVars, pureVars>>
  /\ LET r == get_player(resp)
         ts == IF r.ok THEN extract_subtitle_tracks(r.tracks) ELSE <<>>
     IN IF ts # <<>>
          THEN /\ client_err' = ""
               /\ yield_client' = clients[client_idx]
               /\ UNCHANGED client_idx
               /\ EndMethod(1, Ok(ts))
          ELSE IF client_idx < Len(clients)
            THEN /\ client_idx' = client_idx + 1
                 /\ client_err' = IF r.ok THEN "" ELSE r.err
                 /\ UNCHANGED <<pc, yield_client, tracks, yielded, outcome,
                                discovered, selected, error, retryVars>>
            ELSE /\ client_err' = ""
                 /\ UNCHANGED <<client_idx, yield_client>>
                 /\ EndMethod(1, Err(NoSubtitlesAvailable))
  /\ UNCHANGED buildVars

\* Method 2: the watch-page request; a debug build saves the page it read.
WatchPage(resp) ==
  /\ pc = "watch"
  /\ issued' = Append(issued, "watch")
  /\ EndMethod(2, discover_from_watch_page(resp))
  /\ files' = IF debug_assertions /\ resp.kind \in {"undecodable", "player"}
                THEN files \cup {"/tmp/youtube_watch_page.html"} ELSE files
  /\ UNCHANGED <<options, client_idx, client_err, yield_client, fetchVars, pureVars,
                 debug_assertions, extractor_options>>

\* Method 3: the mobile-page request.
MobilePage(resp) ==
  /\ pc = "mobile"
  /\ issued' = Append(issued, "mobile")
  /\ EndMethod(3, discover_from_mobile_page(resp))
  /\ UNCHANGED <<options, client_idx, client_err, yield_client, fetchVars, pureVars>>
  /\ UNCHANGED buildVars

\* Method 4: the get_video_info request.
VideoInfo(resp) ==
  /\ pc = "api"
  /\ issued' = Append(issued, "get_video_info")
  /\ EndMethod(4, discover_from_api(resp))
  /\ UNCHANGED <<options, client_idx, client_err, yield_client, fetchVars, pureVars>>
  /\ UNCHANGED buildVars

\* The public SubtitleExtractor::select_best_track called directly on a track
\* list of the caller's own (as the crate's unit test does).
SelectBestTrack(ts) ==
  /\ pc = "start"
  /\ pc' = "selected"
  /\ tracks' = ts
  /\ selected' = select_best_track(ts, extractor_options)
  /\ UNCHANGED <<options, client_idx, client_err, yield_client, issued, yielded,
                 outcome, discovered, error, fetchVars, retryVars, pureVars>>
  /\ UNCHANGED buildVars

\* Every track list a caller can hold: the tracks of any caption list.
TrackLists == {extract_tracks_from_player_response(c).tracks : c \in CaptionLists}

Next ==
  \/ Subtitle
  \/ \E ts \in TrackLists : SelectBestTrack(ts)
  \/ \E resp \in Responses : GetPlayer(resp)
  \/ \E resp \in Responses : WatchPage(resp)
  \/ \E resp \in Responses : MobilePage(resp)
  \/ \E resp \in Responses : VideoInfo(resp)

Spec == Init /\ [][Next]_vars

(***************************************************************************)
(* The status mappings applied on their own: one call of map_http_error or *)
(* of get_player per behaviour, over every non-success status.             *)
(***************************************************************************)

\* What main.rs passes when no flag is given.
DefaultOptions ==
  [language |-> NoLanguage, allow_auto_generated |-> TRUE, prefer_manual |-> TRUE,
   clean_content |-> TRUE, validate_timing |-> TRUE]

\* Every variable of the pipeline but pc.
pipelineVars ==
  <<options, client_idx, client_err, yield_client, tracks, issued, yielded, outcome,
    discovered, selected, error>>

\* reqwest::StatusCode::is_success
is_success(status) == status >= 200 /\ status <= 299

HttpStatuses == 100..599
NonSuccess == {st \in HttpStatuses : ~is_success(st)}
VideoIds == {"dQw4w9WgXcQ", "test123"}

InitStatus ==
  /\ pc = "call"
  /\ options = DefaultOptions
  /\ DiscoveryInit
  /\ RestInit
  /\ extractor_options = options

\* extractor.map_http_error(status, video_id)
MapHttpError(status, video_id) ==
  /\ pc = "call"
  /\ pc' = "return"
  /\ call' = [fn |-> "map_http_error", status |-> status, video_id |-> video_id]
  /\ ret' = Err(map_http_error(status))
  /\ UNCHANGED <<pipelineVars, fetchVars, retryVars, given>>
  /\ UNCHANGED buildVars

\* client.get_player(video_id) when the server answers with a non-success status
PlayerStatus(status, video_id) ==
  /\ pc = "call"
  /\ pc' = "return"
  /\ call' = [fn |-> "get_player", status |-> status, video_id |-> video_id]
  /\ ret' = get_player([kind |-> "status", status |-> status, caption_tracks |-> <<>>])
  /\ UNCHANGED <<pipelineVars, fetchVars, retryVars, given>>
  /\ UNCHANGED buildVars

NextStatus ==
  \/ \E st \in NonSuccess, v \in VideoIds : MapHttpError(st, v)
  \/ \E st \in NonSuccess, v \in VideoIds : PlayerStatus(st, v)

SpecStatus == InitStatus /\ [][NextStatus]_vars

(***************************************************************************)
(* Subtitle documents.  A text is a sequence of atoms: a line feed, a      *)
(* space, a word, a decimal number, a formatted timestamp hh:mm:ss,mmm or  *)
(* hh:mm:ss.mmm, or an XML element.  Every atom is a record of one shape:  *)
(* its kind k, its characters w and its numeric fields t.                  *)
(***************************************************************************)

MaxEntries == 2
MaxBlocks == 2

SubtitleParsing == "SubtitleParsing"

NL == [k |-> "nl", w |-> "\n", t |-> <<>>]
SP == [k |-> "sp", w |-> " ", t |-> <<>>]
Word(w) == [k |-> "word", w |-> w, t |-> <<>>]
Num(n) == [k |-> "num", w |-> "", t |-> <<n>>]
Stamp(hh, mm, ss, mmm, sep) == [k |-> "stamp", w |-> sep, t |-> <<hh, mm, ss, mmm>>]
Arrow == Word("-->")

\* A parse result: YdlResult<ParsedSubtitles>.
Parsed(es) == [ok |-> TRUE, err |-> "", entries |-> es]
ParseErr(e) == [ok |-> FALSE, err |-> e, entries |-> <<>>]

\* SubtitleEntry::new(start, end, text), both offsets in milliseconds.
SubtitleEntry(start, end, text) == [start |-> start, end |-> end, text |-> text]

\* char::is_whitespace on an atom.
IsSpace(a) == a.k \in {"nl", "sp"}

\* str::contains for a one-atom pattern.
HasAtom(s, a) == \E i \in 1..Len(s) : s[i] = a

\* str::trim
RECURSIVE TrimStart(_)
TrimStart(s) == IF s # <<>> /\ IsSpace(Head(s)) THEN TrimStart(Tail(s)) ELSE s

RECURSIVE TrimEnd(_)
TrimEnd(s) ==
  IF s # <<>> /\ IsSpace(s[Len(s)]) THEN TrimEnd(SubSeq(s, 1, Len(s) - 1)) ELSE s

Trim(s) == TrimEnd(TrimStart(s))

\* The index of the first line feed of s, 0 if there is none.
FirstNL(s) ==
  IF \E i \in 1..Len(s) : s[i] = NL
  THEN CHOOSE i \in 1..Len(s) : s[i] = NL /\ \A j \in 1..(i - 1) : s[j] # NL
  ELSE 0

\* str::lines: the text between line feeds; a final line feed ends the last
\* line and opens no new one.
RECURSIVE Lines(_)
Lines(s) ==
  IF s = <<>> THEN <<>>
  ELSE IF FirstNL(s) = 0 THEN <<s>>
  ELSE <<SubSeq(s, 1, FirstNL(s) - 1)>> \o Lines(SubSeq(s, FirstNL(s) + 1, Len(s)))

\* The index of the first "\n\n" of s, 0 if there is none.
FirstBlank(s) ==
  IF \E i \in 1..(Len(s) - 1) : s[i] = NL /\ s[i + 1] = NL
  THEN CHOOSE i \in 1..(Len(s) - 1) :
         /\ s[i] = NL /\ s[i + 1] = NL
         /\ \A j \in 1..(i - 1) : ~(s[j] = NL /\ s[j + 1] = NL)
  ELSE 0

\* content.split("\n\n"): matches are taken left to right and do not overlap.
RECURSIVE SplitBlank(_)
SplitBlank(s) ==
  IF FirstBlank(s) = 0 THEN <<s>>
  ELSE <<SubSeq(s, 1, FirstBlank(s) - 1)>>
         \o SplitBlank(SubSeq(s, FirstBlank(s) + 2, Len(s)))

\* [&str]::join("\n")
RECURSIVE JoinLines(_)
JoinLines(ls) ==
  IF ls = <<>> THEN <<>>
  ELSE IF Len(ls) = 1 THEN ls[1]
  ELSE ls[1] \o <<NL>> \o JoinLines(Tail(ls))

\* The concatenation of a sequence of sequences.
RECURSIVE Flatten(_)
Flatten(ss) == IF ss = <<>> THEN <<>> ELSE Head(ss) \o Flatten(Tail(ss))

\* A match of "stamp --> stamp" at position i of s, both stamps written
\* with the decimal separator sep.
TimeMatchAt(s, i, sep) ==
  /\ i + 4 <= Len(s)
  /\ s[i].k = "stamp" /\ s[i].w = sep
  /\ s[i + 1] = SP /\ s[i + 2] = Arrow /\ s[i + 3] = SP
  /\ s[i + 4].k = "stamp" /\ s[i + 4].w = sep

\* Regex::is_match for srt_time_regex (sep ",") and vtt_time_regex (sep ".").
TimeIsMatch(s, sep) == \E i \in 1..Len(s) : TimeMatchAt(s, i, sep)

\* Regex::captures: the leftmost match, as <<start stamp, end stamp>>;
\* <<>> if the line holds none.
TimeCaptures(s, sep) ==
  IF TimeIsMatch(s, sep)
  THEN LET i == CHOOSE i \in 1..Len(s) :
                  /\ TimeMatchAt(s, i, sep)
                  /\ \A j \in 1..(i - 1) : ~TimeMatchAt(s, j, sep)
       IN <<s[i], s[i + 4]>>
  ELSE <<>>

\* ContentProcessor::parse_srt_time: the four captured groups of one stamp.
\* The hour group is \d{2}: of a longer hour field it holds the last two
\* digits.
parse_srt_time(stamp) ==
  (stamp.t[1] % 100) * 3600000 + stamp.t[2] * 60000 + stamp.t[3] * 1000 + stamp.t[4]

\* ContentProcessor::parse_vtt_time
parse_vtt_time(stamp) ==
  (stamp.t[1] % 100) * 3600000 + stamp.t[2] * 60000 + stamp.t[3] * 1000 + stamp.t[4]

\* The body of parse_srt_content's loop: the entries one block contributes.
srt_block_entry(block) ==
  LET b == Trim(block)
      lines == Lines(b)
  IN IF b = <<>> THEN <<>>
     ELSE IF Len(lines) < 3 THEN <<>>
     ELSE LET captures == TimeCaptures(lines[2], ",")
          IN IF captures = <<>> THEN <<>>
             ELSE <<SubtitleEntry(parse_srt_time(captures[1]),
                                  parse_srt_time(captures[2]),
                                  JoinLines(SubSeq(lines, 3, Len(lines))))>>

\* ContentProcessor::parse_srt_content
parse_srt_content(content) ==
  LET blocks == SplitBlank(content)
      entries == Flatten([i \in 1..Len(blocks) |-> srt_block_entry(blocks[i])])
  IN IF entries = <<>> THEN ParseErr(SubtitleParsing) ELSE Parsed(entries)

\* str::starts_with for a one-word prefix.
StartsWith(line, w) == line # <<>> /\ line[1] = Word(w)

\* parse_vtt_content's first loop: the lines left once the header is skipped.
RECURSIVE SkipVttHeader(_)
SkipVttHeader(lines) ==
  IF lines = <<>> THEN <<>>
  ELSE LET line == Trim(Head(lines))
       IN IF line = <<>> \/ StartsWith(line, "WEBVTT") \/ StartsWith(line, "NOTE")
          THEN SkipVttHeader(Tail(lines))
          ELSE lines

\* The number of leading lines of lines that are not blank.
RECURSIVE CueTextLen(_)
CueTextLen(lines) ==
  IF lines = <<>> \/ Trim(Head(lines)) = <<>> THEN 0 ELSE 1 + CueTextLen(Tail(lines))

\* parse_vtt_content's second loop.
RECURSIVE VttCues(_)
VttCues(lines) ==
  IF lines = <<>> THEN <<>>
  ELSE LET line == Trim(Head(lines))
           captures == TimeCaptures(line, ".")
           n == CueTextLen(Tail(lines))
       IN IF line = <<>> THEN VttCues(Tail(lines))
          ELSE IF captures = <<>> THEN VttCues(Tail(lines))
          ELSE <<SubtitleEntry(parse_vtt_time(captures[1]),
                               parse_vtt_time(captures[2]),
                               JoinLines(SubSeq(lines, 2, n + 1)))>>
                 \o VttCues(SubSeq(lines, n + 2, Len(lines)))

\* parse_vtt_content as it would be if a document without cues were a
\* success.
parse_vtt_content_EmptyOk(content) == Parsed(VttCues(SkipVttHeader(Lines(content))))

\* ContentProcessor::parse_vtt_content
parse_vtt_content(content) ==
  LET entries == VttCues(SkipVttHeader(Lines(content)))
  IN IF entries = <<>> THEN ParseErr(SubtitleParsing) ELSE Parsed(entries)

\* An entity reference "&name" as it stands in a text: the ampersand and
\* the rest of the reference up to its semicolon.
Entity(name) == <<Word("&"), Word(name)>>

\* str::replace(from, to) for a pattern of two atoms: the matches are taken
\* from the left and do not overlap.
RECURSIVE Replace(_, _, _)
Replace(s, from, to) ==
  IF Len(s) < 2 THEN s
  ELSE IF SubSeq(s, 1, 2) = from THEN to \o Replace(SubSeq(s, 3, Len(s)), from, to)
  ELSE <<Head(s)>> \o Replace(Tail(s), from, to)

\* html_escape::decode_html_entities: seven replacements, one after the
\* other, the ampersand first.
decode_html_entities(text) ==
  LET r1 == Replace(text, Entity("amp;"), <<Word("&")>>)
      r2 == Replace(r1, Entity("lt;"), <<Word("<")>>)
      r3 == Replace(r2, Entity("gt;"), <<Word(">")>>)
      r4 == Replace(r3, Entity("quot;"), <<Word("\"")>>)
      r5 == Replace(r4, Entity("#39;"), <<Word("'")>>)
      r6 == Replace(r5, Entity("#x27;"), <<Word("'")>>)
  IN Replace(r6, Entity("apos;"), <<Word("'")>>)

\* The opening tag of an element, with the offsets its attributes hold, and
\* its closing tag.
Open(kind, t) == [k |-> "open", w |-> kind, t |-> t]
Close(kind) == [k |-> "close", w |-> kind, t |-> <<>>]

\* <p t=".." d="..">inner</p>: the start and, if written, the duration, in
\* milliseconds.
PElement(start, dur, inner) == <<Open("p", <<start>> \o dur)>> \o inner \o <<Close("p")>>

\* <text start=".." dur="..">inner</text>, offsets kept in milliseconds.
TextElement(start, dur, inner) ==
  <<Open("text", <<start>> \o dur)>> \o inner \o <<Close("text")>>

\* <s>inner</s>, a word of a paragraph.
SElement(inner) == <<Open("s", <<>>)>> \o inner \o <<Close("s")>>

\* An atom that begins with the character '<'.
IsLt(a) == a.k \in {"open", "close"} \/ a = Word("<")

\* The end of the match of an element regex that begins at s[i], 0 if there
\* is none: p_regex takes "(.*?)</p>", anything but a line feed up to the
\* first closing tag; text_regex and s_regex take "([^<]*)" and then their
\* closing tag.
MatchEnd(s, kind, i) ==
  LET stops == {j \in (i + 1)..Len(s) :
                  IF kind = "p" THEN s[j] = Close("p") \/ s[j] = NL ELSE IsLt(s[j])}
      first == CHOOSE j \in stops : \A j2 \in stops : j <= j2
  IN IF s[i].k = "open" /\ s[i].w = kind /\ stops # {} /\ s[first] = Close(kind)
     THEN first ELSE 0

\* Regex::captures_iter from position i: the matches from the left, not
\* overlapping, each with its opening tag and its captured inner text.
RECURSIVE Captures(_, _, _)
Captures(s, kind, i) ==
  IF i > Len(s) THEN <<>>
  ELSE LET j == MatchEnd(s, kind, i)
       IN IF j = 0 THEN Captures(s, kind, i + 1)
          ELSE <<[open |-> s[i], inner |-> SubSeq(s, i + 1, j - 1)]>>
                 \o Captures(s, kind, j + 1)

\* The entry of one XML element; a missing duration is one second.
XmlEntry(open, text) ==
  SubtitleEntry(open.t[1], open.t[1] + (IF Len(open.t) > 1 THEN open.t[2] ELSE 1000), text)

\* The decoded, trimmed text of a paragraph: its <s> words joined if it
\* holds an <s tag, its inner content otherwise.
PText(inner) ==
  LET words == Captures(inner, "s", 1)
      text == IF \E i \in 1..Len(inner) : inner[i].k = "open" /\ inner[i].w = "s"
              THEN Flatten([i \in 1..Len(words) |-> words[i].inner])
              ELSE inner
  IN Trim(decode_html_entities(text))

\* One entry per paragraph that is kept.
KeptEntries(kept) == [i \in 1..Len(kept) |-> XmlEntry(kept[i].open, PText(kept[i].inner))]

\* The entries of the paragraph schema: paragraphs with empty text are skipped.
PEntries(content) ==
  KeptEntries(SelectSeq(Captures(content, "p", 1), LAMBDA c : PText(c.inner) # <<>>))

\* The entries of the legacy <text> schema.
TextEntries(content) ==
  LET texts == Captures(content, "text", 1)
  IN [i \in 1..Len(texts) |->
        XmlEntry(texts[i].open, decode_html_entities(texts[i].inner))]

\* A parser that adds the entries of the legacy schema to the paragraphs'.
parse_youtube_xml_content_Merge(content) ==
  IF PEntries(content) \o TextEntries(content) = <<>> THEN ParseErr(SubtitleParsing)
  ELSE Parsed(PEntries(content) \o TextEntries(content))

\* The <text> loop runs only if the paragraphs gave no entries.
WithLegacy(ps, content) == IF ps = <<>> THEN TextEntries(content) ELSE ps

\* No entries is a parsing error.
ParsedOrErr(entries) == IF entries = <<>> THEN ParseErr(SubtitleParsing) ELSE Parsed(entries)

\* ContentProcessor::parse_youtube_xml_content
parse_youtube_xml_content(content) == ParsedOrErr(WithLegacy(PEntries(content), content))

\* A plain-line parser whose first entry starts at 3 s.
parse_plain_text_content_FromOne(content) ==
  LET lines == SelectSeq(Lines(content), LAMBDA l : Trim(l) # <<>>)
  IN IF lines = <<>> THEN ParseErr(SubtitleParsing)
     ELSE Parsed([i \in 1..Len(lines) |->
                    SubtitleEntry(i * 3000, i * 3000 + 3000, lines[i])])

\* ContentProcessor::parse_plain_text_content
parse_plain_text_content(content) ==
  LET lines == SelectSeq(Lines(content), LAMBDA l : Trim(l) # <<>>)
  IN IF lines = <<>> THEN ParseErr(SubtitleParsing)
     ELSE Parsed([i \in 1..Len(lines) |->
                    SubtitleEntry((i - 1) * 3000, (i - 1) * 3000 + 3000, lines[i])])

\* A detection that goes on to the plain-line parser when the parser it
\* selected fails.
parse_subtitle_content_TryNext(content) ==
  LET r == IF HasAtom(content, Word("WEBVTT")) THEN parse_vtt_content(content)
           ELSE IF HasAtom(content, Word("<?xml")) \/ HasAtom(content, Word("<transcript"))
             THEN parse_youtube_xml_content(content)
           ELSE IF TimeIsMatch(content, ",") THEN parse_srt_content(content)
           ELSE IF HasAtom(content, Arrow) THEN parse_vtt_content(content)
           ELSE parse_plain_text_content(content)
  IN IF r.ok THEN r ELSE parse_plain_text_content(content)

\* ContentProcessor::parse_subtitle_content
parse_subtitle_content(content) ==
  IF HasAtom(content, Word("WEBVTT")) THEN parse_vtt_content(content)
  ELSE IF HasAtom(content, Word("<?xml")) \/ HasAtom(content, Word("<transcript"))
    THEN parse_youtube_xml_content(content)
  ELSE IF TimeIsMatch(content, ",") THEN parse_srt_content(content)
  ELSE IF HasAtom(content, Arrow) THEN parse_vtt_content(content)
  ELSE parse_plain_text_content(content)

\* SubtitleEntry::start_as_srt / end_as_srt: hh:mm:ss,mmm of an offset.
as_srt(ms) ==
  Stamp(ms \div 3600000, (ms % 3600000) \div 60000, (ms % 60000) \div 1000, ms % 1000, ",")

\* One iteration of to_srt_format's loop: the block of entry number i.
srt_block(i, entry) ==
  <<Num(i), NL, as_srt(entry.start), SP, Arrow, SP, as_srt(entry.end), NL>>
    \o entry.text \o <<NL, NL>>

\* ContentProcessor::to_srt_format
to_srt_format(entries) ==
  Flatten([i \in 1..Len(entries) |-> srt_block(i, entries[i])])

(***************************************************************************)
(* The numbered-block encoder and parser applied on their own: either a    *)
(* sequence of entries is encoded by to_srt_format and the output parsed   *)
(* again by parse_subtitle_content, or a document is given to              *)
(* parse_srt_content.                                                      *)
(***************************************************************************)

Texts ==
  { <<>>,
    <<Word("Hello")>>,
    <<Word("Hello"), SP>>,
    <<Word("Hello"), NL, Word("World")>>,
    <<Word("Hello"), NL, NL, Word("World")>>,
    <<Word("WEBVTT")>> }

\* <<start, end>> in milliseconds.
Spans == { <<1000, 3000>>, <<4000, 6000>>, <<3723004, 3725000>> }

Entries == { SubtitleEntry(sp[1], sp[2], tx) : sp \in Spans, tx \in Texts }

EntrySeqs == UNION { [1..n -> Entries] : n \in 0..MaxEntries }

\* The timing line "start --> end" written with separator sep.
TimingLine(start, end, sep) ==
  <<[start EXCEPT !.w = sep], SP, Arrow, SP, [end EXCEPT !.w = sep]>>

\* Blocks of a numbered-block document: three well-formed ones, one whose
\* second line is no timestamp pair, one without text, one with dot-decimal
\* stamps.
Blocks ==
  { <<Num(1), NL>> \o TimingLine(as_srt(1000), as_srt(3000), ",") \o <<NL, Word("Hello")>>,
    <<Num(2), NL>> \o TimingLine(as_srt(4000), as_srt(6000), ",") \o <<NL, Word("World")>>,
    <<Num(3), NL>> \o TimingLine(as_srt(3723004), as_srt(3725000), ",")
       \o <<NL, Word("Hello"), NL, Word("World")>>,
    <<Num(1), NL, Word("soon"), NL, Word("Hello")>>,
    <<Num(1), NL>> \o TimingLine(as_srt(1000), as_srt(3000), ","),
    <<Num(1), NL>> \o TimingLine(as_srt(1000), as_srt(3000), ".") \o <<NL, Word("Hello")>> }

BlockSeqs == UNION { [1..n -> Blocks] : n \in 1..MaxBlocks }

\* The document made of the blocks bs, a blank line between two of them.
RECURSIVE Document(_)
Document(bs) ==
  IF Len(bs) = 1 THEN bs[1] ELSE bs[1] \o <<NL, NL>> \o Document(Tail(bs))

InitSrt ==
  /\ pc = "call"
  /\ options = DefaultOptions
  /\ DiscoveryInit
  /\ RestInit
  /\ extractor_options = options

\* processor.to_srt_format(entries)
ToSrtFormat(entries) ==
  /\ pc = "call"
  /\ pc' = "encoded"
  /\ call' = [fn |-> "to_srt_format", entries |-> entries]
  /\ ret' = to_srt_format(entries)
  /\ UNCHANGED <<pipelineVars, fetchVars, retryVars, given>>
  /\ UNCHANGED buildVars

\* processor.parse_subtitle_content(output, language) on the encoder's output
Reparse ==
  /\ pc = "encoded"
  /\ pc' = "return"
  /\ call' = [fn |-> "round_trip", entries |-> call.entries, content |-> ret]
  /\ ret' = parse_subtitle_content(ret)
  /\ UNCHANGED <<pipelineVars, fetchVars, retryVars, given>>
  /\ UNCHANGED buildVars

\* processor.parse_srt_content(content, language); the document ends with
\* the line feeds of tail.
ParseSrtContent(bs, tail) ==
  /\ pc = "call"
  /\ pc' = "return"
  /\ call' = [fn |-> "parse_srt_content", blocks |-> bs, content |-> Document(bs) \o tail]
  /\ ret' = parse_srt_content(Document(bs) \o tail)
  /\ UNCHANGED <<pipelineVars, fetchVars, retryVars, given>>
  /\ UNCHANGED buildVars

NextSrt ==
  \/ \E es \in EntrySeqs : ToSrtFormat(es)
  \/ Reparse
  \/ \E bs \in BlockSeqs, tail \in {<<>>, <<NL>>} : ParseSrtContent(bs, tail)

SpecSrt == InitSrt /\ [][NextSrt]_vars

(***************************************************************************)
(* Fetching the selected track: SubtitleExtractor::download_content.       *)
(***************************************************************************)

\* Bodies of a caption response: empty, a timed-text document with one
\* paragraph, one with no paragraph, one whose paragraph lasts 0 ms.
Bodies ==
  { <<>>,
    <<Word("<?xml")>> \o PElement(0, <<2000>>, <<Word("Hello")>>),
    <<Word("<transcript")>>,
    <<Word("<?xml")>> \o PElement(0, <<0>>, <<Word("Hello")>>) }

\* What a caption request can come back with: send() fails, a non-success
\* status, a body text() cannot read, or a body.
FetchResponses ==
       {[kind |-> "transport", status |-> 0, body |-> <<>>]}
  \cup {[kind |-> "status", status |-> st, body |-> <<>>] : st \in FailStatuses}
  \cup {[kind |-> "undecodable", status |-> 200, body |-> <<>>]}
  \cup {[kind |-> "body", status |-> 200, body |-> b] : b \in Bodies}

\* How a response reads in the history of requests.
ResKind(resp) ==
  IF resp.kind = "body"
    THEN IF resp.body = <<>> THEN "empty" ELSE "content"
    ELSE resp.kind

\* YdlResult<String>
Fetched(c) == [ok |-> TRUE, err |-> "", content |-> c]
FetchErr(e) == [ok |-> FALSE, err |-> e, content |-> <<>>]

\* YouTubeSubtitleExtractor::download_content
youtube_client_download_content(resp) ==
  CASE resp.kind = "transport" -> FetchErr(Network)
    [] resp.kind = "status" -> FetchErr(SubtitleDiscoveryError)
    [] resp.kind = "undecodable" -> FetchErr(Network)
    [] resp.body = <<>> -> FetchErr(SubtitleParsing)
    [] OTHER -> Fetched(resp.body)

\* The URL of the direct download: base_url, with fmt=srv3 appended behind
\* "&" or "?" when it holds no fmt=.
DirectUrl(base_url) ==
  IF Contains(base_url, "fmt=") THEN base_url
  ELSE base_url \o <<IF Contains(base_url, "?") THEN "&" ELSE "?", "fmt=", "srv3">>

\* The synthesized timedtext URL of the last step.
FallbackUrl(lang) == <<"timedtext", "?", "v=", "&", "lang=", lang, "&", "fmt=", "srv3">>

\* A direct download that takes any successful response, empty or not.
direct_step_AcceptEmpty(resp) ==
  CASE resp.kind = "transport" -> [next |-> "return", result |-> FetchErr(Network)]
    [] resp.kind = "status" -> [next |-> "fallback", result |-> FetchErr("")]
    [] resp.kind = "undecodable" -> [next |-> "return", result |-> FetchErr(Network)]
    [] OTHER -> [next |-> "return", result |-> Fetched(resp.body)]

\* Step 2 of download_content: send()? and text()? return their error, a
\* success with a non-empty body returns it, anything else falls through to
\* the fallback URL.
direct_step(resp) ==
  CASE resp.kind = "transport" -> [next |-> "return", result |-> FetchErr(Network)]
    [] resp.kind = "status" -> [next |-> "fallback", result |-> FetchErr("")]
    [] resp.kind = "undecodable" -> [next |-> "return", result |-> FetchErr(Network)]
    [] resp.body = <<>> -> [next |-> "fallback", result |-> FetchErr("")]
    [] OTHER -> [next |-> "return", result |-> Fetched(resp.body)]

\* Step 3 of download_content.
fallback_step(resp) ==
  CASE resp.kind = "transport" -> FetchErr(Network)
    [] resp.kind = "status" -> FetchErr(SubtitleDiscoveryError)
    [] resp.kind = "undecodable" -> FetchErr(Network)
    [] resp.body = <<>> -> FetchErr(SubtitleParsing)
    [] OTHER -> Fetched(resp.body)

\* download_content returns r to Ydl::subtitle.
Return(r) ==
  IF r.ok
    THEN /\ raw_content' = r.content
         /\ pc' = "process"
         /\ UNCHANGED <<error, retryVars>>
    ELSE /\ raw_content' = <<>>
         /\ Fail(r.err)

\* The variables of discovery and selection.
discoveryVars ==
  <<options, client_idx, client_err, yield_client, tracks, issued, yielded, outcome,
    discovered, selected>>

\* Step 1: the track's URL through the InnerTube client; a debug build saves
\* the content it got.
FetchInnerTube(resp) ==
  /\ pc = "download"
  /\ selected[1].url # <<>>
  /\ fetched' = Append(fetched, [step |-> "innertube", url |-> selected[1].url,
                                 res |-> ResKind(resp)])
  /\ LET r == youtube_client_download_content(resp)
     IN IF r.ok /\ r.content # <<>>
          THEN /\ files' = IF debug_assertions
                             THEN files \cup {"/tmp/subtitle_content.xml"} ELSE files
               /\ Return(r)
          ELSE /\ pc' = "direct"
               /\ UNCHANGED <<raw_content, error, retryVars, files>>
  /\ UNCHANGED <<discoveryVars, output, pureVars, debug_assertions, extractor_options>>

\* Step 2: a direct GET of the track's URL.
FetchDirect(resp) ==
  /\ pc = "direct"
  /\ fetched' = Append(fetched, [step |-> "direct", url |-> DirectUrl(selected[1].url),
                                 res |-> ResKind(resp)])
  /\ LET s == direct_step(resp)
     IN IF s.next = "return"
          THEN Return(s.result)
          ELSE /\ pc' = "fallback"
               /\ UNCHANGED <<raw_content, error, retryVars>>
  /\ UNCHANGED <<discoveryVars, output, pureVars>>
  /\ UNCHANGED buildVars

\* Step 3: the synthesized timedtext URL; a track without URL starts here.
FetchFallback(resp) ==
  /\ \/ pc = "fallback"
     \/ pc = "download" /\ selected[1].url = <<>>
  /\ fetched' = Append(fetched, [step |-> "fallback",
                                 url |-> FallbackUrl(selected[1].language_code),
                                 res |-> ResKind(resp)])
  /\ Return(fallback_step(resp))
  /\ UNCHANGED <<discoveryVars, output, pureVars>>
  /\ UNCHANGED buildVars

\* The tracks download_content can be given: of either type and language,
\* without URL or with one of the URLs discovery builds.
FetchTracks ==
  [language_code : Langs, track_type : {Manual, AutoGenerated},
   url : {<<>>} \cup BaseUrls \cup {InnerTubeUrl(b) : b \in BaseUrls}
           \cup {SimpleUrl(l) : l \in Langs}]

InitFetch ==
  /\ pc = "download"
  /\ options = DefaultOptions
  /\ client_idx = 1
  /\ client_err = ""
  /\ yield_client = ""
  /\ \E t \in FetchTracks : tracks = <<t>> /\ selected = <<t>>
  /\ issued = <<>>
  /\ yielded = [k \in 1..4 |-> <<>>]
  /\ outcome = [k \in 1..4 |-> "untried"]
  /\ discovered = Pending
  /\ error = ""
  /\ RestInit
  /\ extractor_options = options

NextFetch ==
  \/ \E resp \in FetchResponses : FetchInnerTube(resp)
  \/ \E resp \in FetchResponses : FetchDirect(resp)
  \/ \E resp \in FetchResponses : FetchFallback(resp)

SpecFetch == InitFetch /\ [][NextFetch]_vars

(***************************************************************************)
(* Processing the fetched content: ContentProcessor::process_content.      *)
(***************************************************************************)

Srt == "Srt"
Vtt == "Vtt"
Txt == "Txt"
Json == "Json"
Raw == "Raw"
Formats == {Srt, Vtt, Txt, Json, Raw}

\* validate_timing as it would be if an overlap were an error, not a warning.
validate_timing_NoOverlap(entries) ==
  \A i \in 1..Len(entries) :
    /\ entries[i].start < entries[i].end
    /\ i > 1 => entries[i].start >= entries[i - 1].end

\* ContentProcessor::validate_timing: TRUE iff Ok(()).  Its only Err is on
\* start >= end; the duration and overlap branches only log a warning.
validate_timing(entries) ==
  \A i \in 1..Len(entries) : entries[i].start < entries[i].end

\* html_tag_regex.replace_all(text, ""): "<[^>]*>", a '<' up to the first
\* '>' after it, taken from the left.
RECURSIVE StripTags(_)
StripTags(s) ==
  IF s = <<>> THEN <<>>
  ELSE LET closes == {j \in 2..Len(s) : s[j] = Word(">")}
           first == CHOOSE j \in closes : \A j2 \in closes : j <= j2
       IN IF Head(s) = Word("<") /\ closes # {}
          THEN StripTags(SubSeq(s, first + 1, Len(s)))
          ELSE <<Head(s)>> \o StripTags(Tail(s))

\* split_whitespace().collect().join(" ") on a trimmed text.
RECURSIVE CollapseSpace(_)
CollapseSpace(s) ==
  IF s = <<>> THEN <<>>
  ELSE IF IsSpace(Head(s)) THEN <<SP>> \o CollapseSpace(TrimStart(s))
  ELSE <<Head(s)>> \o CollapseSpace(Tail(s))

\* The sanitizer's own chain of replacements, the ampersand third.
CleanEntities(text) ==
  LET r1 == Replace(text, Entity("lt;"), <<Word("<")>>)
      r2 == Replace(r1, Entity("gt;"), <<Word(">")>>)
      r3 == Replace(r2, Entity("amp;"), <<Word("&")>>)
      r4 == Replace(r3, Entity("quot;"), <<Word("\"")>>)
  IN Replace(r4, Entity("#39;"), <<Word("'")>>)

\* A sanitizer that leaves the entity references as they are.
clean_subtitle_entries_KeepEntities(entries) ==
  [i \in 1..Len(entries) |->
     [entries[i] EXCEPT !.text = CollapseSpace(Trim(StripTags(entries[i].text)))]]

\* ContentProcessor::clean_subtitle_entries: tags removed, whitespace
\* normalized, entities replaced; offsets untouched.
clean_subtitle_entries(entries) ==
  [i \in 1..Len(entries) |->
     [entries[i] EXCEPT
        !.text = CleanEntities(CollapseSpace(Trim(StripTags(entries[i].text))))]]

\* SubtitleEntry::start_as_vtt / end_as_vtt: hh:mm:ss.mmm of an offset.
as_vtt(ms) == [as_srt(ms) EXCEPT !.w = "."]

\* One iteration of to_vtt_format's loop.
vtt_block(entry) ==
  <<as_vtt(entry.start), SP, Arrow, SP, as_vtt(entry.end), NL>> \o entry.text \o <<NL, NL>>

\* ContentProcessor::to_vtt_format
to_vtt_format(entries) ==
  <<Word("WEBVTT"), NL, NL>> \o Flatten([i \in 1..Len(entries) |-> vtt_block(entries[i])])

\* ContentProcessor::to_txt_format
to_txt_format(entries) == JoinLines([i \in 1..Len(entries) |-> entries[i].text])

\* Duration::as_secs_f64 of a millisecond offset, as serde_json prints it:
\* the whole seconds and the three-digit fraction.
as_secs_f64(ms) == <<ms \div 1000, ms % 1000>>

\* The "language" member and one member of "entries" of the JSON document.
JsonLanguage(language) == [k |-> "json_language", w |-> language, t |-> <<>>]
JsonEntry(entry) ==
  [k |-> "json_entry", w |-> "",
   t |-> <<as_secs_f64(entry.start), as_secs_f64(entry.end), entry.text>>]

\* ContentProcessor::to_json_format
to_json_format(entries, language) ==
  <<JsonLanguage(language)>> \o [i \in 1..Len(entries) |-> JsonEntry(entries[i])]

\* convert_to_format as it would be if an entry without text were left out.
convert_to_format_SkipEmpty(entries, format, language) ==
  LET kept == SelectSeq(entries, LAMBDA e : e.text # <<>>)
  IN CASE format = Srt -> to_srt_format(kept)
       [] format = Vtt -> to_vtt_format(kept)
       [] format = Txt -> to_txt_format(kept)
       [] format = Json -> to_json_format(kept, language)
       [] format = Raw -> IF kept = <<>> THEN <<>> ELSE to_srt_format(kept)

\* ContentProcessor::convert_to_format
convert_to_format(entries, format, language) ==
  CASE format = Srt -> to_srt_format(entries)
    [] format = Vtt -> to_vtt_format(entries)
    [] format = Txt -> to_txt_format(entries)
    [] format = Json -> to_json_format(entries, language)
    [] format = Raw -> IF entries = <<>> THEN <<>> ELSE to_srt_format(entries)

\* YdlResult<String> of process_content.
Processed(text) == [ok |-> TRUE, err |-> "", text |-> text]
ProcessErr(e) == [ok |-> FALSE, err |-> e, text |-> <<>>]

\* ContentProcessor::process_content; each let of the code binds its value once.
process_content(content, target_format, language, clean_content, validate) ==
  CHOOSE r \in
    {IF ~parsed.ok THEN ProcessErr(parsed.err)
     ELSE IF validate /\ ~validate_timing(parsed.entries) THEN ProcessErr(SubtitleParsing)
     ELSE CHOOSE p \in
            {Processed(convert_to_format(entries, target_format, language)) :
               entries \in {IF clean_content THEN clean_subtitle_entries(parsed.entries)
                                             ELSE parsed.entries}} : TRUE
       : parsed \in {parse_subtitle_content(content)}} : TRUE

\* The last step of Ydl::subtitle: process the fetched content and return.
Process ==
  /\ pc = "process"
  /\ \E r \in {process_content(raw_content, Srt, selected[1].language_code,
                                options.clean_content,
                                options.validate_timing)} :
        IF r.ok
          THEN /\ output' = <<r.text>>
               /\ pc' = "done"
               /\ trail' = IF wrapped THEN Append(trail, AttemptEvent("")) ELSE trail
               /\ UNCHANGED <<error, wrapped, max_retries, retries>>
          ELSE /\ output' = <<>>
               /\ Fail(r.err)
  /\ UNCHANGED <<discoveryVars, fetched, raw_content, pureVars>>
  /\ UNCHANGED buildVars

(***************************************************************************)
(* Ydl::subtitle_with_retry: the whole pipeline inside the retry loop.     *)
(***************************************************************************)

MaxRetries == 2

\* A loop that sleeps before its first attempt.
LoopEntry_SleepFirst == "sleep"

\* Where subtitle_with_retry's loop starts: at the call of self.subtitle,
\* whose first step is the first request of discovery.
LoopEntry == "innertube"

\* The options of the calls: DownloadPreferences with and without
\* auto-generated tracks and timing validation.
RetryOptions ==
  [language : {NoLanguage}, allow_auto_generated : BOOLEAN, prefer_manual : {TRUE},
   clean_content : {TRUE}, validate_timing : BOOLEAN]

\* One caption list per player response: none, or a single track.
CaptionLists1 == {<<>>} \cup {<<c>> : c \in CaptionTrack}

\* The answers discovery meets here.
Responses1 ==
       {[kind |-> "transport", status |-> 0, caption_tracks |-> <<>>]}
  \cup {[kind |-> "status", status |-> st, caption_tracks |-> <<>>] : st \in {404, 429, 503}}
  \cup {[kind |-> "player", status |-> 200, caption_tracks |-> c] : c \in CaptionLists1}

\* The answers a caption request meets here.
FetchResponses1 ==
  {resp \in FetchResponses : resp.kind = "status" => resp.status \in {429, 503}}

InitRetry ==
  /\ pc = "start"
  /\ options \in RetryOptions
  /\ DiscoveryInit
  /\ RestInit
  /\ extractor_options = options

\* subtitle_with_retry is called: retries = 0 and the loop is entered.
SubtitleWithRetry(m) ==
  /\ pc = "start"
  /\ pc' = LoopEntry
  /\ wrapped' = TRUE
  /\ max_retries' = m
  /\ retries' = 0
  /\ UNCHANGED <<discoveryVars, error, trail, fetchVars, pureVars>>
  /\ UNCHANGED buildVars

\* The error of the attempt that ended last ("" if there is none).
last_error == IF trail = <<>> THEN "" ELSE trail[Len(trail)].err

\* A loop whose next attempt starts with the tracks the failed one found.
Wake_KeepTracks ==
  /\ pc = "sleep"
  /\ pc' = "innertube"
  /\ trail' = Append(trail, SleepEvent(unwrap_or(retry_delay(last_error), 1)))
  /\ client_idx' = 1
  /\ client_err' = ""
  /\ yield_client' = ""
  /\ issued' = <<>>
  /\ yielded' = [k \in 1..4 |-> <<>>]
  /\ outcome' = [k \in 1..4 |-> "untried"]
  /\ discovered' = Pending
  /\ selected' = <<>>
  /\ fetched' = <<>>
  /\ raw_content' = <<>>
  /\ UNCHANGED <<tracks, options, error, output, wrapped, max_retries, retries, pureVars>>
  /\ UNCHANGED buildVars

\* A loop that sleeps again after its sleep instead of calling self.subtitle.
Wake_SleepAgain ==
  /\ pc = "sleep"
  /\ pc' = "sleep"
  /\ UNCHANGED <<discoveryVars, error, fetchVars, retryVars, pureVars>>
  /\ UNCHANGED buildVars

\* The sleep is over and the loop calls self.subtitle again: nothing of the
\* failed attempt is kept.
Wake ==
  /\ pc = "sleep"
  /\ pc' = "innertube"
  /\ trail' = Append(trail, SleepEvent(unwrap_or(retry_delay(last_error), 1)))
  /\ client_idx' = 1
  /\ client_err' = ""
  /\ yield_client' = ""
  /\ tracks' = <<>>
  /\ issued' = <<>>
  /\ yielded' = [k \in 1..4 |-> <<>>]
  /\ outcome' = [k \in 1..4 |-> "untried"]
  /\ discovered' = Pending
  /\ selected' = <<>>
  /\ fetched' = <<>>
  /\ raw_content' = <<>>
  /\ UNCHANGED <<options, error, output, wrapped, max_retries, retries, pureVars>>
  /\ UNCHANGED buildVars

NextRetry ==
  \/ \E m \in 0..MaxRetries : SubtitleWithRetry(m)
  \/ \E resp \in Responses1 : GetPlayer(resp)
  \/ \E resp \in Responses1 : WatchPage(resp)
  \/ \E resp \in Responses1 : MobilePage(resp)
  \/ \E resp \in Responses1 : VideoInfo(resp)
  \/ \E resp \in FetchResponses1 : FetchInnerTube(resp)
  \/ \E resp \in FetchResponses1 : FetchDirect(resp)
  \/ \E resp \in FetchResponses1 : FetchFallback(resp)
  \/ Process
  \/ Wake

SpecRetry == InitRetry /\ [][NextRetry]_vars

(***************************************************************************)
(* subtitle_with_retry when every await completes: each request of an      *)
(* attempt is answered or fails, and each tokio::time::sleep ends.         *)
(***************************************************************************)

\* The options of these calls.
LiveOptions == {o \in RetryOptions : o.allow_auto_generated /\ ~o.validate_timing}

\* The answers discovery meets here: send() fails, or player data.
LiveResponses == {resp \in Responses1 : resp.kind \in {"transport", "player"}}

\* The bodies of these calls: one line of plain text, and a document with the
\* signature of the XML schema and no element.
LiveBodies == {<<Word("Hello")>>, <<Word("<transcript")>>}

\* The answers a caption request meets here: send() fails, the upstream limits
\* the rate or is unavailable, or a body.
LiveFetchResponses ==
       {resp \in FetchResponses1 : resp.kind \in {"transport", "status"}}
  \cup {[kind |-> "body", status |-> 200, body |-> b] : b \in LiveBodies}

InitLive ==
  /\ pc = "start"
  /\ options \in LiveOptions
  /\ DiscoveryInit
  /\ RestInit
  /\ extractor_options = options

NextLive ==
  \/ \E m \in 0..MaxRetries : SubtitleWithRetry(m)
  \/ \E resp \in LiveResponses : GetPlayer(resp)
  \/ \E resp \in LiveResponses : WatchPage(resp)
  \/ \E resp \in LiveResponses : MobilePage(resp)
  \/ \E resp \in LiveResponses : VideoInfo(resp)
  \/ \E resp \in LiveFetchResponses : FetchInnerTube(resp)
  \/ \E resp \in LiveFetchResponses : FetchDirect(resp)
  \/ \E resp \in LiveFetchResponses : FetchFallback(resp)
  \/ Process
  \/ Wake

SpecLive == InitLive /\ [][NextLive]_vars /\ WF_vars(NextLive)

(***************************************************************************)
(* One Ydl::subtitle call, discovery to processing, in a release and in a  *)
(* debug build.                                                            *)
(***************************************************************************)

InitFiles ==
  /\ pc = "start"
  /\ options \in RetryOptions
  /\ DiscoveryInit
  /\ FreshInit
  /\ given = <<>>
  /\ debug_assertions \in BOOLEAN
  /\ extractor_options = options

NextFiles ==
  \/ Subtitle
  \/ \E resp \in Responses1 : GetPlayer(resp)
  \/ \E resp \in Responses1 : WatchPage(resp)
  \/ \E resp \in Responses1 : MobilePage(resp)
  \/ \E resp \in Responses1 : VideoInfo(resp)
  \/ \E resp \in FetchResponses1 : FetchInnerTube(resp)
  \/ \E resp \in FetchResponses1 : FetchDirect(resp)
  \/ \E resp \in FetchResponses1 : FetchFallback(resp)
  \/ Process

SpecFiles == InitFiles /\ [][NextFiles]_vars

(***************************************************************************)
(* The parsers applied on their own to documents given line by line.       *)
(***************************************************************************)

MaxLines == 4

\* Lines of a document: blank ones, a header line, a dot-decimal timing
\* line, a timing line whose second stamp is no stamp, text lines.
DocLines ==
  { <<>>,
    <<SP>>,
    <<Word("WEBVTT")>>,
    TimingLine(as_srt(1000), as_srt(3000), "."),
    <<Stamp(0, 0, 1, 0, "."), SP, Arrow, SP, Word("later")>>,
    <<Word("Hi")>>,
    <<SP, Word("Yo")>> }

LineSeqs == UNION { [1..n -> DocLines] : n \in 0..MaxLines }

\* The document whose lines are ls, each ended by a line feed.
Text(ls) == Flatten([i \in 1..Len(ls) |-> ls[i] \o <<NL>>])

InitProc ==
  /\ pc = "call"
  /\ options = DefaultOptions
  /\ DiscoveryInit
  /\ IdleInit
  /\ given \in LineSeqs
  /\ extractor_options = options

\* processor.parse_vtt_content(content, language)
ParseVttContent ==
  /\ pc = "call"
  /\ pc' = "return"
  /\ call' = [fn |-> "parse_vtt_content", lines |-> given, content |-> Text(given)]
  /\ ret' = parse_vtt_content(Text(given))
  /\ UNCHANGED <<pipelineVars, fetchVars, retryVars, given>>
  /\ UNCHANGED buildVars

\* processor.parse_plain_text_content(content, language)
ParsePlainTextContent ==
  /\ pc = "call"
  /\ pc' = "return"
  /\ call' = [fn |-> "parse_plain_text_content", lines |-> given, content |-> Text(given)]
  /\ ret' = parse_plain_text_content(Text(given))
  /\ UNCHANGED <<pipelineVars, fetchVars, retryVars, given>>
  /\ UNCHANGED buildVars

NextProc ==
  \/ ParseVttContent
  \/ ParsePlainTextContent

SpecProc == InitProc /\ [][NextProc]_vars

(***************************************************************************)
(* process_content and its steps applied on their own, to documents and to *)
(* entry sequences.                                                        *)
(***************************************************************************)

\* Offsets of entries: in order, too short (under 100 ms) and overlapping
\* the first, too long (over 30 s), reversed, empty, and past the hour.
TimedSpans ==
  { <<1000, 3000>>, <<2000, 2050>>, <<4000, 40000>>, <<3000, 1000>>, <<5000, 5000>>,
    <<3723004, 3725000>> }

\* The entries handed to validate_timing and convert_to_format.
TimedEntries ==
  {SubtitleEntry(sp[1], sp[2], <<Word("Hi")>>) : sp \in TimedSpans}
    \cup {SubtitleEntry(1000, 3000, tx) : tx \in {<<>>, <<Word("Hello"), NL, Word("World")>>}}
TimedSeqs == UNION { [1..n -> TimedEntries] : n \in 0..MaxEntries }

\* The lines of the documents handed to process_content.
ProcLines ==
  { <<>>, <<Word("WEBVTT")>>,
    TimingLine(as_srt(1000), as_srt(3000), "."),
    TimingLine(as_srt(3000), as_srt(1000), "."),
    <<Word("Hi")>> }
ProcDocs ==
  UNION { {Text(ls) : ls \in [1..n -> ProcLines]} : n \in 0..(MaxLines - 1) }
    \cup Bodies \cup {Document(bs) : bs \in BlockSeqs}

InitConv ==
  /\ pc = "call"
  /\ DiscoveryInit
  /\ IdleInit
  /\ \/ /\ options \in {[DefaultOptions EXCEPT !.clean_content = c, !.validate_timing = v] :
                           c \in BOOLEAN, v \in BOOLEAN}
        /\ given \in {[content |-> doc, entries |-> <<>>] : doc \in ProcDocs}
     \/ /\ options = DefaultOptions
        /\ given \in {[content |-> <<>>, entries |-> es] : es \in TimedSeqs}
  /\ extractor_options = options

\* One call of validate_timing.
ValidateTiming ==
  /\ pc = "call"
  /\ pc' = "return"
  /\ call' = [fn |-> "validate_timing", entries |-> given.entries]
  /\ ret' = [ok |-> validate_timing(given.entries)]
  /\ UNCHANGED <<pipelineVars, fetchVars, retryVars, given>>
  /\ UNCHANGED buildVars

\* One call of convert_to_format for each target format on the same entries.
ConvertToFormat(language) ==
  /\ pc = "call"
  /\ pc' = "return"
  /\ call' = [fn |-> "convert_to_format", entries |-> given.entries, language |-> language]
  /\ ret' = [f \in Formats |-> convert_to_format(given.entries, f, language)]
  /\ UNCHANGED <<pipelineVars, fetchVars, retryVars, given>>
  /\ UNCHANGED buildVars

\* One call of process_content, as Ydl::subtitle makes it.
ProcessContent(format) ==
  /\ pc = "call"
  /\ pc' = "return"
  /\ call' = [fn |-> "process_content", content |-> given.content, format |-> format,
              clean_content |-> options.clean_content,
              validate_timing |-> options.validate_timing]
  /\ ret' = process_content(given.content, format, "en", options.clean_content,
                            options.validate_timing)
  /\ UNCHANGED <<pipelineVars, fetchVars, retryVars, given>>
  /\ UNCHANGED buildVars

NextConv ==
  \/ ValidateTiming
  \/ \E language \in Langs : ConvertToFormat(language)
  \/ \E format \in Formats : ProcessContent(format)

SpecConv == InitConv /\ [][NextConv]_vars

(***************************************************************************)
(* Format detection and the timed-text XML parser applied on their own to  *)
(* documents that carry the signatures of several formats.                 *)
(***************************************************************************)

\* Lines of such a document: the header token, the two XML signatures,
\* paragraphs (one with text, one with blank text, one made of <s> words, one
\* broken over two lines), legacy elements (one with a nested encoding), a
\* comma-decimal and a dot-decimal timing line, a bare arrow, a text line.
ParseLines ==
  { <<Word("WEBVTT")>>,
    <<Word("<?xml")>>,
    <<Word("<transcript")>>,
    PElement(0, <<2000>>, <<Word("Hello")>>),
    PElement(5000, <<>>, <<SP>>),
    PElement(7000, <<1000>>, SElement(<<Word("Hel")>>) \o SElement(<<Word("lo")>>)),
    PElement(9000, <<>>, <<Word("a"), NL, Word("b")>>),
    TextElement(1500, <<2500>>, <<Word("World")>>),
    TextElement(4000, <<>>, Entity("amp;") \o <<Word("lt;")>>),
    TimingLine(as_srt(1000), as_srt(3000), ","),
    TimingLine(as_srt(1000), as_srt(3000), "."),
    <<Arrow>>,
    <<Word("Hi")>> }

ParseDocs == UNION { [1..n -> ParseLines] : n \in 0..(MaxLines - 1) }

InitParse ==
  /\ pc = "call"
  /\ options = DefaultOptions
  /\ DiscoveryInit
  /\ IdleInit
  /\ given \in ParseDocs
  /\ extractor_options = options

\* processor.parse_youtube_xml_content(content, language)
ParseYoutubeXmlContent ==
  /\ pc = "call"
  /\ pc' = "return"
  /\ call' = [fn |-> "parse_youtube_xml_content", lines |-> given, content |-> Text(given)]
  /\ ret' = parse_youtube_xml_content(Text(given))
  /\ UNCHANGED <<pipelineVars, fetchVars, retryVars, given>>
  /\ UNCHANGED buildVars

\* processor.parse_subtitle_content(content, language)
ParseSubtitleContent ==
  /\ pc = "call"
  /\ pc' = "return"
  /\ call' = [fn |-> "parse_subtitle_content", lines |-> given, content |-> Text(given)]
  /\ ret' = parse_subtitle_content(Text(given))
  /\ UNCHANGED <<pipelineVars, fetchVars, retryVars, given>>
  /\ UNCHANGED buildVars

NextParse ==
  \/ ParseYoutubeXmlContent
  \/ ParseSubtitleContent

SpecParse == InitParse /\ [][NextParse]_vars

(***************************************************************************)
(* The sanitizer applied on its own to entries whose texts hold tags,      *)
(* whitespace runs and entity references, and the parser's entity decoder  *)
(* applied to the same texts.                                              *)
(***************************************************************************)

\* '<b>Hello</b>, &amp; world!', a text with whitespace runs, plain and
\* nested references, an encoded tag, a '<' that opens no tag.
CleanTexts ==
  { <<>>,
    <<Word("Hi")>>,
    <<Word("<"), Word("b"), Word(">"), Word("Hello"), Word("<"), Word("/b"), Word(">"),
      Word(","), SP>> \o Entity("amp;") \o <<SP, Word("world!")>>,
    <<SP, Word("a"), SP, NL, Word("b"), SP>>,
    Entity("quot;"),
    Entity("#39;"),
    Entity("#x27;"),
    Entity("apos;"),
    Entity("amp;") \o <<Word("lt;")>>,
    Entity("amp;") \o <<Word("quot;")>>,
    Entity("lt;") \o <<Word("b")>> \o Entity("gt;"),
    <<Word("a"), Word("<"), Word("b")>> }

\* Offsets in order and reversed: the sanitizer does not look at them.
CleanEntries ==
  {SubtitleEntry(sp[1], sp[2], tx) : sp \in {<<1000, 3000>>, <<3000, 1000>>}, tx \in CleanTexts}
CleanSeqs == UNION { [1..n -> CleanEntries] : n \in 0..MaxEntries }

InitClean ==
  /\ pc = "call"
  /\ options = DefaultOptions
  /\ DiscoveryInit
  /\ IdleInit
  /\ given \in CleanSeqs
  /\ extractor_options = options

\* processor.clean_subtitle_entries(entries)
CleanSubtitleEntries ==
  /\ pc = "call"
  /\ pc' = "return"
  /\ call' = [fn |-> "clean_subtitle_entries", entries |-> given]
  /\ ret' = [entries |-> clean_subtitle_entries(given), decoded |-> <<>>]
  /\ UNCHANGED <<pipelineVars, fetchVars, retryVars, given>>
  /\ UNCHANGED buildVars

\* html_escape::decode_html_entities(text) for the text of each of the
\* same entries.
DecodeHtmlEntities ==
  /\ pc = "return"
  /\ pc' = "decoded"
  /\ ret' = [ret EXCEPT
               !.decoded = [i \in 1..Len(given) |-> decode_html_entities(given[i].text)]]
  /\ UNCHANGED <<pipelineVars, fetchVars, retryVars, given, call>>
  /\ UNCHANGED buildVars

NextClean ==
  \/ CleanSubtitleEntries
  \/ DecodeHtmlEntities

SpecClean == InitClean /\ [][NextClean]_vars

(***************************************************************************)
(* parser.rs: YouTubeParser, and the construction of a Ydl from a URL.     *)
(*                                                                         *)
(* A URL string is given by its parts: scheme ("" if it has none), host,   *)
(* the segments of its path and the key=value pairs of its query.  A       *)
(* token is the sequence of its characters; "%51" and the like stand for   *)
(* one percent-encoded character.                                          *)
(***************************************************************************)

MaxParams == 2

InvalidUrl == "InvalidUrl"
InvalidVideoId == "InvalidVideoId"
Configuration == "Configuration"

\* [a-zA-Z0-9_-]
IdChars ==
  { "a", "b", "c", "d", "e", "f", "g", "h", "i", "j", "k", "l", "m", "n", "o", "p", "q",
    "r", "s", "t", "u", "v", "w", "x", "y", "z",
    "A", "B", "C", "D", "E", "F", "G", "H", "I", "J", "K", "L", "M", "N", "O", "P", "Q",
    "R", "S", "T", "U", "V", "W", "X", "Y", "Z",
    "0", "1", "2", "3", "4", "5", "6", "7", "8", "9", "_", "-" }

\* YouTubeParser::new: youtube_domains
youtube_domains ==
  { "youtube.com", "www.youtube.com", "youtu.be", "m.youtube.com",
    "youtube-nocookie.com", "www.youtube-nocookie.com" }

\* Tokens: two identifiers, one of ten characters, one with a character
\* outside the class, and Id1 with its last character percent-encoded.
Id1 == <<"d", "Q", "w", "4", "w", "9", "W", "g", "X", "c", "Q">>
Id2 == <<"a", "-", "b", "_", "c", "-", "0", "_", "Z", "-", "9">>
TenChars == <<"d", "Q", "w", "4", "w", "9", "W", "g", "X", "c">>
BadChar == <<"d", "Q", "w", "4", "w", "9", "W", "g", "X", "c", "!">>
Id1Encoded == <<"d", "Q", "w", "4", "w", "9", "W", "g", "X", "c", "%51">>
WatchSeg == <<"w", "a", "t", "c", "h">>
EmbedSeg == <<"e", "m", "b", "e", "d">>
ShortsSeg == <<"s", "h", "o", "r", "t", "s">>
UserSeg == <<"u", "s", "e", "r">>
KeyV == <<"v">>
KeyT == <<"t">>
TenSeconds == <<"1", "0", "s">>

\* A URL string of the given parts.
UrlString(scheme, host, path, query) ==
  [scheme |-> scheme, host |-> host, path |-> path, query |-> query]

\* One key=value pair of a query string.
Param(key, value) == [key |-> key, value |-> value]

\* The URL strings parse_url is applied to.
Origins ==
  { <<"https", h>> : h \in youtube_domains \cup {"www.google.com", "WWW.YOUTUBE.COM", "127.0.0.1"} }
    \cup { <<"http", "www.youtube.com">>, <<"", "youtu.be">>, <<"", "">> }
Paths ==
  { <<>>, <<WatchSeg>>, <<WatchSeg, <<>>>>, <<EmbedSeg>>, <<UserSeg, TenChars>>,
    <<<<>>, Id1>>, <<Id1, WatchSeg>> }
    \cup { <<t>> : t \in {Id1, Id2, TenChars, BadChar} }
    \cup { <<EmbedSeg, t>> : t \in {Id1, Id2, TenChars, BadChar} }
    \cup { <<ShortsSeg, t>> : t \in {Id1, Id2, TenChars, BadChar} }
Params ==
  { Param(KeyV, Id1), Param(KeyV, Id1Encoded), Param(KeyV, TenChars), Param(KeyT, TenSeconds) }
Queries == UNION { [1..n -> Params] : n \in 0..MaxParams }
Urls == { UrlString(o[1], o[2], p, q) : o \in Origins, p \in Paths, q \in Queries }

\* YdlResult<String> of the parser.
IdOk(id) == [ok |-> TRUE, id |-> id, err |-> ""]
IdErr(e) == [ok |-> FALSE, id |-> <<>>, err |-> e]

\* The host as Url::parse keeps it: lower-cased.
Lower(host) == IF host = "WWW.YOUTUBE.COM" THEN "www.youtube.com" ELSE host

\* form_urlencoded decoding of a query token.
Decode(token) ==
  [i \in 1..Len(token) |->
     IF token[i] = "%51" THEN "Q" ELSE IF token[i] = "+" THEN " " ELSE token[i]]

\* Url::parse: a string without a scheme or without a host is no URL; the
\* host is lower-cased, an empty path is "/", the query is kept raw.
UrlParse(url_str) ==
  IF url_str.scheme = "" \/ url_str.host = "" THEN [ok |-> FALSE]
  ELSE [ok |-> TRUE,
        host |-> Lower(url_str.host),
        path |-> IF url_str.path = <<>> THEN <<<<>>>> ELSE url_str.path,
        query |-> url_str.query]

\* Url::domain: None for an IP address.
Domain(url) == IF url.host = "127.0.0.1" THEN <<>> ELSE <<url.host>>

\* Url::query_pairs: the pairs, keys and values decoded.
query_pairs(url) ==
  [i \in 1..Len(url.query) |->
     Param(Decode(url.query[i].key), Decode(url.query[i].value))]

\* YouTubeParser::is_valid_video_id: ^[a-zA-Z0-9_-]{11}$
is_valid_video_id(video_id) ==
  Len(video_id) = 11 /\ \A i \in 1..11 : video_id[i] \in IdChars

\* YouTubeParser::validate_and_return_video_id
validate_and_return_video_id(video_id) ==
  IF is_valid_video_id(video_id) THEN IdOk(video_id) ELSE IdErr(InvalidVideoId)

\* YouTubeParser::validate_domain: TRUE iff Ok(()).
validate_domain(url) ==
  Domain(url) # <<>> /\ Domain(url)[1] \in youtube_domains

\* extract_from_watch_url as it would be if v had to be the first parameter.
extract_from_watch_url_FirstParam(url) ==
  IF url.path # <<WatchSeg>> THEN IdErr(InvalidUrl)
  ELSE IF query_pairs(url) = <<>> \/ query_pairs(url)[1].key # KeyV THEN IdErr(InvalidUrl)
  ELSE validate_and_return_video_id(query_pairs(url)[1].value)

\* YouTubeParser::extract_from_watch_url
extract_from_watch_url(url) ==
  IF url.path # <<WatchSeg>> THEN IdErr(InvalidUrl)
  ELSE LET found == SelectSeq(query_pairs(url), LAMBDA kv : kv.key = KeyV)
       IN IF found = <<>> THEN IdErr(InvalidUrl)
          ELSE validate_and_return_video_id(found[1].value)

\* extract_from_embed_url and extract_from_shorts_url: the segment after
\* the one named first.
extract_from_path(url, first) ==
  IF Len(url.path) >= 2 /\ url.path[1] = first
  THEN validate_and_return_video_id(url.path[2])
  ELSE IdErr(InvalidUrl)

\* YouTubeParser::extract_from_embed_url
extract_from_embed_url(url) == extract_from_path(url, EmbedSeg)

\* YouTubeParser::extract_from_shorts_url
extract_from_shorts_url(url) == extract_from_path(url, ShortsSeg)

\* path.trim_start_matches('/').split('/').next(): the first segment after
\* the leading empty ones; "" if there is none.
RECURSIVE FirstComponent(_)
FirstComponent(path) ==
  IF path = <<>> THEN <<>>
  ELSE IF Head(path) = <<>> THEN FirstComponent(Tail(path))
  ELSE Head(path)

\* YouTubeParser::extract_video_id
extract_video_id(url) ==
  IF Domain(url)[1] = "youtu.be"
  THEN validate_and_return_video_id(FirstComponent(url.path))
  ELSE IF extract_from_watch_url(url).ok THEN extract_from_watch_url(url)
  ELSE IF extract_from_embed_url(url).ok THEN extract_from_embed_url(url)
  ELSE IF extract_from_shorts_url(url).ok THEN extract_from_shorts_url(url)
  ELSE IdErr(InvalidUrl)

\* parse_url as it would be if the domain were not checked.
parse_url_AnyDomain(url_str) ==
  LET url == UrlParse(url_str)
  IN IF ~url.ok THEN IdErr(InvalidUrl)
     ELSE IF Domain(url) = <<>> THEN IdErr(InvalidUrl)
     ELSE extract_video_id(url)

\* YouTubeParser::parse_url
parse_url(url_str) ==
  LET url == UrlParse(url_str)
  IN IF ~url.ok THEN IdErr(InvalidUrl)
     ELSE IF ~validate_domain(url) THEN IdErr(InvalidUrl)
     ELSE extract_video_id(url)

\* format!("https://www.youtube.com/watch?v={}", video_id)
WatchUrl(video_id) ==
  UrlString("https", "www.youtube.com", <<WatchSeg>>, <<Param(KeyV, video_id)>>)

\* YdlResult<String> of normalize_url.
UrlOk(url_str) == [ok |-> TRUE, url |-> url_str, err |-> ""]
UrlErr(e) == [ok |-> FALSE, url |-> <<>>, err |-> e]

\* normalize_url as it would be if the host of the input were kept.
normalize_url_KeepHost(url_str) ==
  IF parse_url(url_str).ok
  THEN UrlOk([WatchUrl(parse_url(url_str).id) EXCEPT !.host = Lower(url_str.host)])
  ELSE UrlErr(parse_url(url_str).err)

\* YouTubeParser::normalize_url
normalize_url(url_str) ==
  IF parse_url(url_str).ok
  THEN UrlOk(WatchUrl(parse_url(url_str).id))
  ELSE UrlErr(parse_url(url_str).err)

\* YdlResult<Ydl> of Ydl::new; built tells whether SubtitleExtractor::new
\* could build its HTTP client.
Ydl_new(url_str, built) ==
  IF ~parse_url(url_str).ok
  THEN [ok |-> FALSE, url |-> <<>>, video_id |-> <<>>, err |-> parse_url(url_str).err]
  ELSE IF ~built
  THEN [ok |-> FALSE, url |-> <<>>, video_id |-> <<>>, err |-> Configuration]
  ELSE [ok |-> TRUE, url |-> url_str, video_id |-> parse_url(url_str).id, err |-> ""]

InitUrl ==
  /\ pc = "call"
  /\ options = DefaultOptions
  /\ DiscoveryInit
  /\ IdleInit
  /\ given \in Urls
  /\ extractor_options = options

\* parser.parse_url(url_str)
ParseUrl ==
  /\ pc = "call"
  /\ pc' = "return"
  /\ call' = [fn |-> "parse_url", url |-> given]
  /\ ret' = parse_url(given)
  /\ UNCHANGED <<pipelineVars, fetchVars, retryVars, given>>
  /\ UNCHANGED buildVars

\* parser.normalize_url(url_str)
NormalizeUrl ==
  /\ pc = "call"
  /\ pc' = "normalized"
  /\ call' = [fn |-> "normalize_url", url |-> given]
  /\ ret' = normalize_url(given)
  /\ UNCHANGED <<pipelineVars, fetchVars, retryVars, given>>
  /\ UNCHANGED buildVars

\* parser.normalize_url on the URL normalize_url returned
Renormalize ==
  /\ pc = "normalized"
  /\ ret.ok
  /\ pc' = "return"
  /\ call' = [fn |-> "normalize_url twice", url |-> given, once |-> ret.url]
  /\ ret' = normalize_url(ret.url)
  /\ UNCHANGED <<pipelineVars, fetchVars, retryVars, given>>
  /\ UNCHANGED buildVars

\* parser.parse_url on the URL normalize_url returned
ParseNormalized ==
  /\ pc = "normalized"
  /\ ret.ok
  /\ pc' = "return"
  /\ call' = [fn |-> "parse_url of normalized", url |-> given, once |-> ret.url]
  /\ ret' = parse_url(ret.url)
  /\ UNCHANGED <<pipelineVars, fetchVars, retryVars, given>>
  /\ UNCHANGED buildVars

\* Ydl::new(url, options): ret holds the instance's url and video_id,
\* options its options.
New(built) ==
  /\ pc = "call"
  /\ ret' = Ydl_new(given, built)
  /\ pc' = IF ret'.ok THEN "constructed" ELSE "failed"
  /\ call' = [fn |-> "Ydl::new", url |-> given]
  /\ UNCHANGED <<pipelineVars, fetchVars, retryVars, given>>
  /\ UNCHANGED buildVars

\* Ydl::with_language
WithLanguage(lang) ==
  /\ pc = "constructed"
  /\ options' = [options EXCEPT !.language = lang]
  /\ call' = [fn |-> "with_language", url |-> given]
  /\ UNCHANGED <<pc, client_idx, client_err, yield_client, tracks, issued, yielded, outcome,
                 discovered, selected, error, fetchVars, retryVars, given, ret>>
  /\ UNCHANGED buildVars

\* Ydl::with_auto_generated
WithAutoGenerated(allow) ==
  /\ pc = "constructed"
  /\ options' = [options EXCEPT !.allow_auto_generated = allow]
  /\ call' = [fn |-> "with_auto_generated", url |-> given]
  /\ UNCHANGED <<pc, client_idx, client_err, yield_client, tracks, issued, yielded, outcome,
                 discovered, selected, error, fetchVars, retryVars, given, ret>>
  /\ UNCHANGED buildVars

\* Ydl::normalized_url: call holds what it returned.
NormalizedUrl ==
  /\ pc = "constructed"
  /\ call' = [fn |-> "normalized_url", url |-> given, out |-> WatchUrl(ret.video_id)]
  /\ UNCHANGED <<pc, pipelineVars, fetchVars, retryVars, given, ret>>
  /\ UNCHANGED buildVars

NextUrl ==
  \/ ParseUrl
  \/ NormalizeUrl
  \/ Renormalize
  \/ ParseNormalized
  \/ \E built \in BOOLEAN : New(built)
  \/ \E lang \in Langs : WithLanguage(lang)
  \/ \E allow \in BOOLEAN : WithAutoGenerated(allow)
  \/ NormalizedUrl

SpecUrl == InitUrl /\ [][NextUrl]_vars

(***************************************************************************)
(* A constructed Ydl whose fluent setters are applied before               *)
(* Ydl::subtitle runs.                                                     *)
(***************************************************************************)

\* The options handed to Ydl::new here: the defaults, with or without
\* preference for manual tracks.
FluentOptions ==
  {o \in YdlOptions : o.language = NoLanguage /\ o.allow_auto_generated}

InitFluent ==
  /\ pc = "constructed"
  /\ options \in FluentOptions
  /\ DiscoveryInit
  /\ RestInit
  /\ extractor_options = options

NextFluent ==
  \/ \E lang \in Langs : WithLanguage(lang)
  \/ \E allow \in BOOLEAN : WithAutoGenerated(allow)
  \/ Subtitle
  \/ \E resp \in Responses : GetPlayer(resp)
  \/ \E resp \in Responses : WatchPage(resp)
  \/ \E resp \in Responses : MobilePage(resp)
  \/ \E resp \in Responses : VideoInfo(resp)

SpecFluent == InitFluent /\ [][NextFluent]_vars

(***************************************************************************)
(* Ydl::subtitles: several formats from one discovery and one download.    *)
(***************************************************************************)

MaxTypes == 2

\* The format lists a caller can ask for.
TypeLists == UNION { [1..n -> Formats] : n \in 0..MaxTypes }

\* SubtitleResult::new(content, subtitle_type, language, track_type)
SubtitleResult(text, subtitle_type, language, track_type) ==
  [content |-> text, format |-> subtitle_type, language |-> language,
   track_type |-> track_type]

\* YdlResult<Vec<SubtitleResult>> of subtitles.
Results(rs) == [ok |-> TRUE, err |-> "", results |-> rs]
ResultsErr(e) == [ok |-> FALSE, err |-> e, results |-> <<>>]

\* A loop that leaves out a format that fails and goes on with the next.
RECURSIVE process_each_SkipFailed(_, _, _, _, _)
process_each_SkipFailed(types, content, track, o, results) ==
  IF types = <<>> THEN Results(results)
  ELSE LET r == process_content(content, Head(types), track.language_code,
                                o.clean_content, o.validate_timing)
       IN process_each_SkipFailed(Tail(types), content, track, o,
            IF r.ok
            THEN Append(results, SubtitleResult(r.text, Head(types), track.language_code,
                                                track.track_type))
            ELSE results)

\* The for loop of subtitles over the requested types, results holding what
\* was pushed so far: the first format that fails ends the call.
RECURSIVE process_each(_, _, _, _, _)
process_each(types, content, track, o, results) ==
  IF types = <<>> THEN Results(results)
  ELSE CHOOSE rs \in
         {IF r.ok
            THEN process_each(Tail(types), content, track, o,
                   Append(results, SubtitleResult(r.text, Head(types), track.language_code,
                                                  track.track_type)))
            ELSE ResultsErr(r.err)
            : r \in {process_content(content, Head(types), track.language_code,
                                     o.clean_content, o.validate_timing)}} : TRUE

\* The options of the calls: with and without timing validation.
MultiOptions == {o \in RetryOptions : o.allow_auto_generated}

\* The answers discovery meets here: not found, or one English track.
Responses2 ==
  {r \in Responses1 :
     /\ r.kind # "transport"
     /\ r.kind = "status" => r.status = 404
     /\ r.kind = "player" =>
          (r.caption_tracks # <<>> /\ r.caption_tracks[1].language_code = "en")}

\* The answers a caption request meets here: rate limited, or a body.
FetchResponses2 ==
  {r \in FetchResponses1 : r.kind = "body" \/ (r.kind = "status" /\ r.status = 429)}

InitMulti ==
  /\ pc = "start"
  /\ options \in MultiOptions
  /\ DiscoveryInit
  /\ RestInit
  /\ extractor_options = options

\* Ydl::subtitles(types) is called: discover_tracks starts.  The types are
\* read by the final loop only and are drawn there.
Subtitles ==
  /\ pc = "start"
  /\ pc' = "innertube"
  /\ UNCHANGED <<discoveryVars, error, fetchVars, retryVars, pureVars>>
  /\ UNCHANGED buildVars

\* The last step of Ydl::subtitles(types): every requested format is
\* encoded from the one downloaded content, and the list or the first
\* error is returned.
ProcessEach(types) ==
  /\ pc = "process"
  /\ given' = types
  /\ \E r \in {process_each(types, raw_content, selected[1], options, <<>>)} :
        IF r.ok
          THEN /\ output' = <<r.results>>
               /\ pc' = "done"
               /\ UNCHANGED <<error, retryVars>>
          ELSE /\ output' = <<>>
               /\ Fail(r.err)
  /\ UNCHANGED <<discoveryVars, fetched, raw_content, call, ret>>
  /\ UNCHANGED buildVars

NextMulti ==
  \/ Subtitles
  \/ \E resp \in Responses2 : GetPlayer(resp)
  \/ \E resp \in Responses2 : WatchPage(resp)
  \/ \E resp \in Responses2 : MobilePage(resp)
  \/ \E resp \in Responses2 : VideoInfo(resp)
  \/ \E resp \in FetchResponses2 : FetchInnerTube(resp)
  \/ \E resp \in FetchResponses2 : FetchDirect(resp)
  \/ \E resp \in FetchResponses2 : FetchFallback(resp)
  \/ \E types \in TypeLists : ProcessEach(types)

SpecMulti == InitMulti /\ [][NextMulti]_vars

(***************************************************************************)
(* Vocabulary of the properties.                                           *)
(***************************************************************************)
\* discover_tracks has returned.
Returned == discovered # Pending

\* The strategy a discovery request belongs to (1 InnerTube, 2 watch page,
\* 3 mobile page, 4 get_video_info).
StrategyOf(req) ==
  CASE req \in {"TvEmbedded", "Web", "Ios", "Android"} -> 1
    [] req = "watch" -> 2
    [] req = "mobile" -> 3
    [] req = "get_video_info" -> 4

\* The strategies that issued a request so far.
Attempted == {StrategyOf(issued[p]) : p \in 1..Len(issued)}

\* The profile requests among the issued ones, in order.
ProfileRequests == SelectSeq(issued, LAMBDA r : StrategyOf(r) = 1)

Failed(k) == outcome[k] \notin {"untried", "Ok"}

Elems(q) == {q[i] : i \in 1..Len(q)}

(***************************************************************************)
(* Discovery order (C1 - C3).                                              *)
(***************************************************************************)
\* C1: the strategies issue their requests in the order InnerTube, watch
\* page, mobile page, get_video_info (the three page/endpoint requests at
\* most once each); a request of strategy k is issued only if every earlier
\* strategy yielded no track; and the tracks discover_tracks returns all come
\* from one strategy, the first that yielded at least one track.
C1_StrategiesInOrder ==
  /\ \A p, q \in 1..Len(issued) :
       p < q => /\ StrategyOf(issued[p]) <= StrategyOf(issued[q])
                /\ StrategyOf(issued[q]) > 1 => StrategyOf(issued[p]) < StrategyOf(issued[q])
  /\ \A p \in 1..Len(issued) :
       \A j \in 1..(StrategyOf(issued[p]) - 1) : yielded[j] = <<>>
  /\ (Returned /\ discovered.ok) =>
       \E k \in 1..4 :
         /\ yielded[k] # <<>>
         /\ \A j \in 1..4 : j # k => yielded[j] = <<>>
         /\ \A j \in (k + 1)..4 : j \notin Attempted
         /\ tracks = yielded[k]
         /\ Elems(discovered.tracks) \subseteq Elems(yielded[k])

\* C1 witness: the first two strategies yielded nothing and the mobile page's
\* tracks are the ones returned.
C1_Witness ==
  /\ Returned /\ discovered.ok
  /\ yielded[3] # <<>>
  /\ issued = <<"TvEmbedded", "Web", "Ios", "Android", "watch", "mobile">>

\* C2: a failed strategy hands control to the next one (its request is
\* pending or has been issued); discover_tracks never returns a strategy's
\* own error, and it returns NoSubtitlesAvailable only when all four
\* strategies were attempted and all four failed.
C2_FailureFallsThrough ==
  /\ \A k \in 1..3 : Failed(k) => (pc = Methods[k + 1] \/ outcome[k + 1] # "untried")
  /\ (Returned /\ ~discovered.ok) =>
        discovered.err \in {NoSubtitlesAvailable, OnlyAutoGenerated}
  /\ (Returned /\ discovered.err = NoSubtitlesAvailable) =>
        /\ Attempted = 1..4
        /\ \A k \in 1..4 : Failed(k)

\* C2 witness: the strategies fail by exhausted profiles, a transport error,
\* an undecodable page and a non-success status, and only then does the call
\* fail with NoSubtitlesAvailable.
C2_Witness ==
  /\ pc = "failed" /\ error = NoSubtitlesAvailable
  /\ outcome = <<NoSubtitlesAvailable, Network, MetadataParsingError, SubtitleDiscoveryError>>
  /\ Len(issued) = 7

\* C3: the InnerTube strategy queries TvEmbedded, Web, Ios, Android in that
\* order, each at most once; it returns Ok exactly with the tracks of the last
\* profile it queried (no profile is queried after one held tracks), it moves
\* on past a profile that errs or holds no track, and it returns
\* NoSubtitlesAvailable only after all four profiles were queried.
C3_ProfilesInOrder ==
  LET fixed == <<"TvEmbedded", "Web", "Ios", "Android">>
      n == Len(ProfileRequests)
  IN /\ n <= 4
     /\ ProfileRequests = SubSeq(fixed, 1, n)
     /\ outcome[1] \in {"untried", "Ok", NoSubtitlesAvailable}
     /\ outcome[1] = "Ok" => /\ n >= 1
                             /\ yield_client = ProfileRequests[n]
                             /\ yielded[1] # <<>>
     /\ outcome[1] = "untried" => /\ yield_client = "" /\ yielded[1] = <<>>
                                  /\ pc = "innertube" => client_idx = n + 1
     /\ outcome[1] = NoSubtitlesAvailable => /\ n = 4 /\ yield_client = ""

\* C3 witness: TvEmbedded and Web gave no track, Ios held tracks, and
\* Android was never queried.
C3_Witness ==
  /\ outcome[1] = "Ok"
  /\ ProfileRequests = <<"TvEmbedded", "Web", "Ios">>
  /\ yield_client = "Ios"
  /\ Returned

(***************************************************************************)
(* Filtering and selection (C4 - C9).                                      *)
(***************************************************************************)
IsManual(t) == t.track_type = Manual
IsAuto(t) == t.track_type = AutoGenerated
InPreferredLanguage(t) == options.language # NoLanguage /\ t.language_code = options.language

\* The element of q at the least position in S, as a sequence of length 0 or 1.
AtLeast(q, S) ==
  IF S = {} THEN <<>> ELSE <<q[CHOOSE i \in S : \A j \in S : i <= j]>>

\* The priority as stated: manual in the preferred language, then any track in
\* the preferred language, then any manual track, then the first track.
StatedBest(q) ==
  LET a == AtLeast(q, {i \in 1..Len(q) : InPreferredLanguage(q[i]) /\ IsManual(q[i])})
      b == AtLeast(q, {i \in 1..Len(q) : InPreferredLanguage(q[i])})
      c == AtLeast(q, {i \in 1..Len(q) : IsManual(q[i])})
  IN IF a # <<>> THEN a ELSE IF b # <<>> THEN b ELSE IF c # <<>> THEN c ELSE <<q[1]>>

\* The priority without the two manual steps: any track in the preferred
\* language, then the first track.
LanguageBest(q) ==
  LET b == AtLeast(q, {i \in 1..Len(q) : InPreferredLanguage(q[i])})
  IN IF b # <<>> THEN b ELSE <<q[1]>>

\* The list select_best_track was given: the filtered list inside
\* Ydl::subtitle, the caller's list in a direct call.
SelectInput == IF pc = "selected" THEN tracks ELSE discovered.tracks

Selecting == (pc \in {"download", "selected"}) /\ SelectInput # <<>>

\* C4 as stated: for every non-empty filtered list and every combination of
\* preferences select_best_track returns the first manual track in the
\* preferred language, else the first track in that language, else the first
\* manual track, else the first track.
C4_StatedPriority ==
  (pc = "download") => selected = StatedBest(discovered.tracks)

\* C4 amended: with prefer_manual set the stated priority holds; with
\* prefer_manual unset the two manual steps are skipped, so the result is the
\* first track in the preferred language, else the first track.
C4_PriorityUnderPreferManual ==
  Selecting =>
    selected = IF options.prefer_manual THEN StatedBest(SelectInput)
                                        ELSE LanguageBest(SelectInput)

\* C4 witness: prefer_manual and a language are set and the track chosen is a
\* manual track of that language that is not the head of the list.
C4_Witness ==
  /\ Selecting
  /\ options.prefer_manual /\ options.language = "en"
  /\ selected # <<SelectInput[1]>>
  /\ selected # <<>>
  /\ IsManual(selected[1]) /\ selected[1].language_code = "en"

\* C5 as stated: with auto-generated tracks disallowed, a discovered list
\* holding at least one manual track (of any language, whatever the language
\* preference) filters to a non-empty list, and OnlyAutoGenerated is reported
\* only if every discovered track was auto-generated.
C5_ManualTrackSurvives ==
  (Returned /\ ~options.allow_auto_generated) =>
     /\ (\E i \in 1..Len(tracks) : IsManual(tracks[i])) => discovered.ok
     /\ discovered.err = OnlyAutoGenerated => \A i \in 1..Len(tracks) : IsAuto(tracks[i])

\* C6: a non-empty discovered list of auto-generated tracks only, with
\* auto-generated disallowed, fails with OnlyAutoGenerated; and
\* NoSubtitlesAvailable is returned only when no track was discovered.
C6_OnlyAutoGeneratedDistinct ==
  Returned =>
     /\ (/\ tracks # <<>>
         /\ \A i \in 1..Len(tracks) : IsAuto(tracks[i])
         /\ ~options.allow_auto_generated)
          => (~discovered.ok /\ discovered.err = OnlyAutoGenerated
              /\ pc = "failed" /\ error = OnlyAutoGenerated)
     /\ discovered.err = NoSubtitlesAvailable => tracks = <<>>

\* C6 witness: two auto-generated tracks were discovered, auto-generated is
\* disallowed, and the call failed with OnlyAutoGenerated.
C6_Witness ==
  /\ pc = "failed" /\ error = OnlyAutoGenerated
  /\ Len(tracks) = 2
  /\ \A i \in 1..Len(tracks) : IsAuto(tracks[i])
  /\ ~options.allow_auto_generated

\* C7: with auto-generated disallowed, discover_tracks returns no
\* auto-generated track, and the track Ydl::subtitle selects for download is
\* not auto-generated.
C7_NoAutoGeneratedWhenDisallowed ==
  (Returned /\ ~options.allow_auto_generated) =>
     /\ \A i \in 1..Len(discovered.tracks) : ~IsAuto(discovered.tracks[i])
     /\ pc = "download" => (selected # <<>> /\ ~IsAuto(selected[1]))

\* C7 witness: an auto-generated track was discovered first, it was dropped,
\* and a manual track is the one selected.
C7_Witness ==
  /\ pc = "download" /\ ~options.allow_auto_generated
  /\ Len(tracks) = 2 /\ IsAuto(tracks[1])
  /\ selected = <<tracks[2]>>

\* C8: when no discovered track has the preferred language, filter_tracks
\* returns what it returns with no language preference, and no
\* language-unavailable error; when some track has it, every returned track
\* is in that language.
C8_LanguageFilterOnlyIfMatch ==
  (Returned /\ options.language # NoLanguage) =>
     IF \E i \in 1..Len(tracks) : tracks[i].language_code = options.language
       THEN \A i \in 1..Len(discovered.tracks) :
               discovered.tracks[i].language_code = options.language
       ELSE /\ discovered = filter_tracks(tracks, [options EXCEPT !.language = NoLanguage])
            /\ discovered.err # "LanguageNotAvailable"
            /\ error # "LanguageNotAvailable"

\* C8 witness: "en" is preferred, only "es" tracks were discovered, and they
\* are returned.
C8_Witness ==
  /\ Returned /\ discovered.ok
  /\ options.language = "en"
  /\ tracks # <<>>
  /\ \A i \in 1..Len(tracks) : tracks[i].language_code = "es"
  /\ Elems(discovered.tracks) \subseteq Elems(tracks)

\* C9: with prefer_manual set, let L be the list after the language and
\* track-type steps: if L holds a manual track the result is exactly the
\* manual tracks of L, and if L is non-empty without a manual track the
\* result is L unchanged.
C9_PreferManualOnlyIfNonEmpty ==
  (Returned /\ options.prefer_manual /\ tracks # <<>>) =>
     LET L == FilterByTrackType(FilterByLanguage(tracks, options), options)
     IN /\ (\E i \in 1..Len(L) : IsManual(L[i])) =>
              /\ discovered.ok
              /\ discovered.tracks = SelectSeq(L, IsManual)
              /\ \A i \in 1..Len(discovered.tracks) : IsManual(discovered.tracks[i])
        /\ (L # <<>> /\ \A i \in 1..Len(L) : ~IsManual(L[i])) =>
              /\ discovered.ok
              /\ discovered.tracks = L

\* C9 witness: prefer_manual is set, only auto-generated tracks were
\* discovered, and they are returned unchanged.
C9_Witness ==
  /\ Returned /\ options.prefer_manual
  /\ Len(tracks) = 2
  /\ \A i \in 1..Len(tracks) : IsAuto(tracks[i])
  /\ discovered.ok /\ discovered.tracks = tracks

\* The error kind the typed mapping gives a non-success status.
TypedKind(status) ==
  IF status = 404 THEN VideoNotFound
  ELSE IF status = 403 THEN VideoRestricted
  ELSE IF status = 429 THEN RateLimited
  ELSE IF status = 503 THEN ServiceUnavailable
  ELSE SubtitleDiscoveryError

\* C17 as stated: a player request answered with a non-success status
\* returns the error typed by that status (404 not found, 403 restricted,
\* 429 rate limited, 503 service unavailable).
C17_PlayerStatusTyped ==
  (pc = "return" /\ call.fn = "get_player") =>
    (~ret.ok /\ ret.err = TypedKind(call.status))

\* C18: map_http_error returns VideoNotFound for 404, VideoRestricted for
\* 403, RateLimited for 429, ServiceUnavailable for 503 and
\* SubtitleDiscoveryError for every other non-success status, whatever the
\* video id.
C18_StatusMapping ==
  (pc = "return" /\ call.fn = "map_http_error") =>
    /\ ~ret.ok
    /\ call.status = 404 => ret.err = VideoNotFound
    /\ call.status = 403 => ret.err = VideoRestricted
    /\ call.status = 429 => ret.err = RateLimited
    /\ call.status = 503 => ret.err = ServiceUnavailable
    /\ call.status \notin {404, 403, 429, 503} => ret.err = SubtitleDiscoveryError

\* map_http_error has been applied to 503 and returned ServiceUnavailable.
C18_Witness ==
  /\ pc = "return"
  /\ call.fn = "map_http_error"
  /\ call.status = 503
  /\ ret.err = ServiceUnavailable

\* C19 as stated: a non-empty entry sequence encoded by to_srt_format and
\* parsed again comes back as the same entries, in the same order, with
\* the same start, end and text.
C19_RoundTrip ==
  (pc = "return" /\ call.fn = "round_trip" /\ call.entries # <<>>) =>
    (ret.ok /\ ret.entries = call.entries)

\* C20 as stated: a successful parse_srt_content holds one entry per block
\* of the document, in document order, each with the block's text lines.
C20_OneEntryPerBlock ==
  (pc = "return" /\ call.fn = "parse_srt_content" /\ ret.ok) =>
    /\ Len(ret.entries) = Len(call.blocks)
    /\ \A i \in 1..Len(call.blocks) :
         ret.entries[i].text =
           JoinLines(SubSeq(Lines(call.blocks[i]), 3, Len(Lines(call.blocks[i]))))

\* The steps of the requests download_content has issued, in order.
FetchSteps == [i \in 1..Len(fetched) |-> fetched[i].step]

\* C11 as stated: download_content returns an error only after the request
\* of step (3), the synthesized timedtext URL, has been issued.
C11_ErrorOnlyAfterFallback ==
  pc = "failed" => \E i \in 1..Len(fetched) : fetched[i].step = "fallback"

\* C12: download_content never returns Ok with empty content, and a
\* successful response with an empty body at step (1) is followed by the
\* request of step (2), at step (2) by the request of step (3), and at step
\* (3) by an error.
C12_EmptyBodyIsFailure ==
  /\ pc = "process" => raw_content # <<>>
  /\ \A i \in 1..Len(fetched) :
       fetched[i].res = "empty" =>
         CASE fetched[i].step = "innertube" ->
                IF i = Len(fetched) THEN pc = "direct" ELSE fetched[i + 1].step = "direct"
           [] fetched[i].step = "direct" ->
                IF i = Len(fetched) THEN pc = "fallback" ELSE fetched[i + 1].step = "fallback"
           [] OTHER -> i = Len(fetched) /\ pc = "failed" /\ error = SubtitleParsing

\* Steps (1) and (2) both answered 2xx with an empty body, step (3) was
\* tried and its content returned.
C12_Witness ==
  /\ pc = "process"
  /\ raw_content # <<>>
  /\ FetchSteps = <<"innertube", "direct", "fallback">>
  /\ fetched[1].res = "empty"
  /\ fetched[2].res = "empty"

\* The attempts of the trail, in order.
Attempts == SelectSeq(trail, LAMBDA v : v.ev = "attempt")

\* The errors the spec lists as terminal: bad identifier, permission denial,
\* no captions, malformed document, invalid timing.
TerminalKinds ==
  {VideoNotFound, VideoRestricted, NoSubtitlesAvailable, OnlyAutoGenerated,
   SubtitleDiscoveryError, MetadataParsingError, SubtitleParsing}

\* The call has returned.
Over == pc \in {"done", "failed"}

\* C13: inside subtitle_with_retry an attempt that fails with a terminal
\* error kind is the last event: the call has returned that error, no sleep
\* and no attempt follows it, and retries counts only the sleeps taken or
\* under way.
C13_TerminalErrorReturnsAtOnce ==
  wrapped =>
    /\ \A i \in 1..Len(trail) :
         (trail[i].ev = "attempt" /\ trail[i].err \in TerminalKinds) =>
           /\ i = Len(trail)
           /\ pc = "failed"
           /\ error = trail[i].err
    /\ retries = Len(SelectSeq(trail, LAMBDA v : v.ev = "sleep"))
                   + (IF pc = "sleep" THEN 1 ELSE 0)

\* A first attempt failed with a retryable error, the second with a terminal
\* one while retries remained, and the call returned it.
C13_Witness ==
  /\ wrapped
  /\ pc = "failed"
  /\ Len(Attempts) = 2
  /\ retries = 1
  /\ retries < max_retries
  /\ error \in TerminalKinds

\* C14: subtitle_with_retry makes at most max_retries + 1 attempts and at
\* least one before it returns; an attempt that succeeds is the last and the call returns its result; when
\* the call fails it returns the error of its last attempt.
C14_BoundedAttempts ==
  wrapped =>
    /\ Len(Attempts) <= max_retries + 1
    /\ Over => Len(Attempts) >= 1
    /\ \A i \in 1..Len(trail) :
         (trail[i].ev = "attempt" /\ trail[i].err = "") => (i = Len(trail) /\ pc = "done")
    /\ pc = "failed" =>
         /\ trail # <<>>
         /\ trail[Len(trail)].ev = "attempt"
         /\ error = trail[Len(trail)].err
    /\ pc = "done" => output # <<>>

\* Every attempt failed with a retryable error and the retries are used up:
\* max_retries + 1 attempts, the last one's error returned.
C14_Witness ==
  /\ wrapped
  /\ pc = "failed"
  /\ max_retries = MaxRetries
  /\ Len(Attempts) = max_retries + 1
  /\ \A i \in 1..Len(Attempts) : is_retryable(Attempts[i].err)
  /\ error = Attempts[Len(Attempts)].err

\* C15: the trail never starts with a sleep; every sleep comes right after
\* an attempt that failed with a retryable error and right before the next
\* attempt (or that attempt is under way); no sleep is the last event of a
\* call that has returned, and none follows a terminal error.
C15_SleepOnlyBetweenAttempts ==
  wrapped =>
    /\ \A i \in 1..Len(trail) :
         trail[i].ev = "sleep" =>
           /\ i > 1
           /\ trail[i - 1].ev = "attempt"
           /\ is_retryable(trail[i - 1].err)
           /\ IF i = Len(trail) THEN ~Over /\ pc # "sleep"
                                ELSE trail[i + 1].ev = "attempt"
    /\ pc = "sleep" =>
         (trail # <<>> /\ trail[Len(trail)].ev = "attempt"
            /\ is_retryable(trail[Len(trail)].err) /\ retries <= max_retries)

\* Two sleeps, each between two attempts, and the call has returned.
C15_Witness ==
  /\ wrapped
  /\ Over
  /\ Len(trail) = 5
  /\ trail[2].ev = "sleep"
  /\ trail[4].ev = "sleep"

\* A request of this attempt's discovery met a transport failure, a 429 or
\* a 503.
DiscoveryMetTransient ==
  \/ client_err = Network
  \/ \E k \in 1..4 : outcome[k] \in {Network, RateLimited, ServiceUnavailable}

\* C16 as stated: when discovery met a transport failure, a 429 or a 503
\* and the attempt fails in discovery while retries remain, the wrapper
\* does not return: it goes on to another attempt.
C16_TransientIsRetried ==
  (wrapped /\ pc = "failed" /\ fetched = <<>> /\ DiscoveryMetTransient
     /\ \A k \in 1..4 : outcome[k] # "Ok")
    => retries >= max_retries

\* Line i of ls is blank.
Blank(ls, i) == \A j \in 1..Len(ls[i]) : IsSpace(ls[i][j])

\* Line i of ls holds a dot-decimal timestamp pair.
Timing(ls, i) ==
  \E j \in 1..Len(ls[i]) :
    /\ j + 4 <= Len(ls[i])
    /\ ls[i][j].k = "stamp" /\ ls[i][j].w = "."
    /\ ls[i][j + 1] = SP /\ ls[i][j + 2] = Arrow /\ ls[i][j + 3] = SP
    /\ ls[i][j + 4].k = "stamp" /\ ls[i][j + 4].w = "."

\* Line i of ls belongs to the header region: it and every line before it
\* is blank or starts, after its leading spaces, with WEBVTT or NOTE.
HeaderLine(ls, i) ==
  \A h \in 1..i :
    \/ Blank(ls, h)
    \/ \E j \in 1..Len(ls[h]) :
         /\ ls[h][j] \in {Word("WEBVTT"), Word("NOTE")}
         /\ \A q \in 1..(j - 1) : IsSpace(ls[h][q])

\* The timing lines of ls after the header, in document order.
TimingLines(ls) ==
  SelectSeq([i \in 1..Len(ls) |-> i], LAMBDA i : ~HeaderLine(ls, i) /\ Timing(ls, i))

\* The milliseconds of a stamp.
Millis(stamp) ==
  stamp.t[1] * 3600000 + stamp.t[2] * 60000 + stamp.t[3] * 1000 + stamp.t[4]

\* C21: parse_vtt_content opens one cue for every non-blank line after the
\* header that holds a dot-decimal timestamp pair, none merged with another.
C21_CuePerTimingLine ==
  (pc = "return" /\ call.fn = "parse_vtt_content" /\ ret.ok) =>
    Len(ret.entries) = Len(TimingLines(call.lines))

\* The indices of the non-blank lines of ls, in order.
NonBlankLines(ls) == SelectSeq([i \in 1..Len(ls) |-> i], LAMBDA i : ~Blank(ls, i))

\* C30: parse_plain_text_content returns one entry per non-blank line, in
\* order, the i-th (from 0) from 3i s to 3i + 3 s with the line as text:
\* the first starts at 0 and each starts where the one before ends.
C30_ThreeSecondSlots ==
  (pc = "return" /\ call.fn = "parse_plain_text_content" /\ ret.ok) =>
    LET nb == NonBlankLines(call.lines)
        es == ret.entries
    IN /\ Len(es) = Len(nb)
       /\ \A i \in 1..Len(es) :
            /\ es[i].text = call.lines[nb[i]]
            /\ es[i].start = 3000 * (i - 1)
            /\ es[i].end = es[i].start + 3000
            /\ i > 1 => es[i].start = es[i - 1].end

\* Three non-blank lines with a blank one among them, parsed.
C30_Witness ==
  /\ pc = "return"
  /\ call.fn = "parse_plain_text_content"
  /\ ret.ok
  /\ Len(ret.entries) = 3
  /\ Len(call.lines) = 4

\* validate_timing has returned.
ValidateReturned == pc = "return" /\ call.fn = "validate_timing"

\* process_content has returned.
ProcessReturned == pc = "return" /\ call.fn = "process_content"

\* Some entry of es has start >= end.
Inverted(es) == \E i \in 1..Len(es) : es[i].start >= es[i].end

\* C22: validate_timing rejects iff some entry has start >= end (so short
\* or long durations and overlaps never reject, and the empty sequence is
\* accepted); with validation on, process_content returns an error and no
\* output whenever such an entry was parsed.
C22_RejectsIffInverted ==
  /\ ValidateReturned => (~ret.ok <=> Inverted(call.entries))
  /\ (ValidateReturned /\ call.entries = <<>>) => ret.ok
  /\ (ProcessReturned /\ call.validate_timing) =>
       LET parsed == parse_subtitle_content(call.content)
       IN (parsed.ok /\ Inverted(parsed.entries)) => (~ret.ok /\ ret.text = <<>>)

\* A 2 s entry followed by a 50 ms one that starts before the first ends
\* has been accepted.
C22_Witness ==
  /\ ValidateReturned
  /\ call.entries = <<SubtitleEntry(1000, 3000, <<Word("Hi")>>),
                      SubtitleEntry(2000, 2050, <<Word("Hi")>>)>>
  /\ ret.ok

\* C23: process_content returns Ok only if at least one entry was parsed,
\* for every document and every target format; a document of nothing but
\* white space is never a success.
C23_NoEmptySuccess ==
  (ProcessReturned /\ ret.ok) =>
    LET parsed == parse_subtitle_content(call.content)
    IN /\ parsed.ok
       /\ parsed.entries # <<>>
       /\ \E i \in 1..Len(call.content) : ~IsSpace(call.content[i])

\* A document holding only the WEBVTT header has been refused for the
\* target format Raw.
C23_Witness ==
  /\ ProcessReturned
  /\ call.content = <<Word("WEBVTT"), NL>>
  /\ call.format = Raw
  /\ ~ret.ok
  /\ ret.err = SubtitleParsing

\* Block b has a second line that is not a comma-decimal timestamp pair.
MalformedBlock(b) == Len(Lines(b)) >= 2 /\ ~TimeIsMatch(Lines(b)[2], ",")

\* Line i of ls stands where a timing line stands (after the header, first
\* or after a blank line), holds an arrow, and no dot-decimal pair.
MalformedTimingLine(ls, i) ==
  /\ ~HeaderLine(ls, i)
  /\ i = 1 \/ Blank(ls, i - 1)
  /\ \E j \in 1..Len(ls[i]) : ls[i][j] = Arrow
  /\ ~Timing(ls, i)

\* C24: a numbered-block or structured document holding a block whose
\* timing line is not a well-formed timestamp pair fails to parse, even if
\* other blocks are valid.
C24_MalformedTimingFails ==
  /\ (pc = "return" /\ call.fn = "parse_srt_content"
        /\ \E b \in 1..Len(call.blocks) : MalformedBlock(call.blocks[b]))
       => ~ret.ok
  /\ (pc = "return" /\ call.fn = "parse_vtt_content"
        /\ \E i \in 1..Len(call.lines) : MalformedTimingLine(call.lines, i))
       => ~ret.ok

\* convert_to_format has returned.
ConvertReturned == pc = "return" /\ call.fn = "convert_to_format"

\* The atoms of kind k of s, in order.
OfKind(s, k) == SelectSeq(s, LAMBDA a : a.k = k)

\* The words that entries es bring into a cue-structured output: per
\* entry, the arrow of its timing line and the words of its text.
CueWords(es) == Flatten([i \in 1..Len(es) |-> <<Arrow>> \o OfKind(es[i].text, "word")])

\* out holds one cue per entry of es, in order: the stamps, written with
\* separator sep, are the entries' offsets, the words their texts'.
OneCuePerEntry(out, es, sep, header) ==
  LET st == OfKind(out, "stamp")
  IN /\ Len(st) = 2 * Len(es)
     /\ \A i \in 1..Len(es) :
          /\ st[2 * i - 1].w = sep /\ Millis(st[2 * i - 1]) = es[i].start
          /\ st[2 * i].w = sep /\ Millis(st[2 * i]) = es[i].end
     /\ OfKind(out, "word") = header \o CueWords(es)

\* out holds one object per entry of es, in order, after the language.
OneObjectPerEntry(out, es, language) ==
  /\ Len(out) = 1 + Len(es)
  /\ out[1].k = "json_language" /\ out[1].w = language
  /\ \A i \in 1..Len(es) :
       /\ out[i + 1].k = "json_entry"
       /\ out[i + 1].t[1][1] * 1000 + out[i + 1].t[1][2] = es[i].start
       /\ out[i + 1].t[2][1] * 1000 + out[i + 1].t[2][2] = es[i].end
       /\ out[i + 1].t[3] = es[i].text

\* The cue-structured, document and pass-through part of C25: one cue or
\* object per entry in input order, SRT cues numbered 1..N, Raw equal to
\* Srt for a non-empty sequence.
StructuredPerEntry ==
  LET es == call.entries
  IN /\ OneCuePerEntry(ret[Srt], es, ",", <<>>)
     /\ OfKind(ret[Srt], "num") = [i \in 1..Len(es) |-> Num(i)]
     /\ OneCuePerEntry(ret[Vtt], es, ".", <<Word("WEBVTT")>>)
     /\ OneObjectPerEntry(ret[Json], es, call.language)
     /\ es # <<>> => ret[Raw] = ret[Srt]

\* C25 as stated: for every entry sequence and every format the output
\* holds exactly one cue, line or object per entry in input order, SRT cues
\* are numbered 1..N and Raw equals Srt for a non-empty sequence.
C25_OneUnitPerEntry ==
  ConvertReturned =>
    /\ StructuredPerEntry
    /\ Len(Lines(ret[Txt])) = Len(call.entries)

\* C25: as above, the Txt output being the entries' texts in input order
\* with one newline between two of them: an entry takes as many lines as
\* its text has.
C25_OrderPreserving ==
  ConvertReturned =>
    LET es == call.entries
    IN /\ StructuredPerEntry
       /\ OfKind(ret[Txt], "word") = Flatten([i \in 1..Len(es) |-> OfKind(es[i].text, "word")])
       /\ Len(OfKind(ret[Txt], "nl")) =
            Len(Flatten([i \in 1..Len(es) |-> OfKind(es[i].text, "nl")]))
              + (IF es = <<>> THEN 0 ELSE Len(es) - 1)

\* Two entries, the first with a two-line text, have been encoded.
C25_Witness ==
  /\ ConvertReturned
  /\ Len(call.entries) = 2
  /\ call.entries[1].text = <<Word("Hello"), NL, Word("World")>>
  /\ ret[Raw] = ret[Srt]
  /\ Len(Lines(ret[Txt])) = 3

\* parse_url has returned.
ParseUrlReturned == pc = "return" /\ call.fn = "parse_url"

\* Token v is an identifier: 11 characters of letters, digits, _ and -.
ValidId(v) == Len(v) = 11 /\ \A i \in 1..Len(v) : v[i] \in IdChars

\* Host h is, whatever its case, one of the six allowed domains.
AllowedHost(h) == h \in youtube_domains \cup {"WWW.YOUTUBE.COM"}

\* URL string u has one of the supported shapes and carries v: watch?v=v on
\* a youtube.com host with other parameters before or after, youtu.be/v,
\* /embed/v or /shorts/v, each with any query.
Carries(u, v) ==
  /\ u.scheme \in {"http", "https"}
  /\ \/ /\ u.host \in {"youtube.com", "www.youtube.com", "m.youtube.com"}
        /\ u.path = <<WatchSeg>>
        /\ \E i \in 1..Len(u.query) :
             /\ u.query[i] = Param(KeyV, v)
             /\ \A j \in 1..Len(u.query) : j # i => u.query[j].key # KeyV
     \/ u.host = "youtu.be" /\ u.path = <<v>>
     \/ /\ u.host \in youtube_domains \ {"youtu.be"}
        /\ u.path \in {<<EmbedSeg, v>>, <<ShortsSeg, v>>}

\* C26: from every URL of a supported shape that carries a valid
\* identifier v, with http or https and any extra query parameters before
\* or after, parse_url extracts exactly v.
C26_SameIdFromEveryShape ==
  ParseUrlReturned =>
    \A v \in {Id1, Id2, TenChars, BadChar} :
      (ValidId(v) /\ Carries(call.url, v)) => (ret.ok /\ ret.id = v)

\* https://www.youtube.com/watch?t=10s&v=dQw4w9WgXcQ has given dQw4w9WgXcQ.
C26_Witness ==
  /\ ParseUrlReturned
  /\ call.url = UrlString("https", "www.youtube.com", <<WatchSeg>>,
                          <<Param(KeyT, TenSeconds), Param(KeyV, Id1)>>)
  /\ ret = IdOk(Id1)

\* URL string u is one parse_url must refuse: no scheme (unparsable or
\* empty), a host outside the allowed domains, /watch without a v
\* parameter, or a path that names no video.
Refused(u) ==
  \/ u.scheme = ""
  \/ ~AllowedHost(u.host)
  \/ /\ u.host # "youtu.be"
     /\ u.path = <<WatchSeg>>
     /\ \A i \in 1..Len(u.query) : u.query[i].key # KeyV
  \/ u.host # "youtu.be" /\ u.path \in {<<>>, <<EmbedSeg>>, <<UserSeg, TenChars>>}

\* The state part of C27: parse_url succeeds only on an allowed host and
\* with a valid token and fails on refused input; Ydl::new fails on such
\* input, and a constructed Ydl holds a valid video_id.
C27_OnlyValidIds ==
  /\ ParseUrlReturned =>
       /\ ret.ok => (AllowedHost(call.url.host) /\ ValidId(ret.id))
       /\ Refused(call.url) => ~ret.ok
  /\ (call.fn = "Ydl::new" /\ Refused(given)) => pc = "failed"
  /\ pc = "constructed" => (ret.ok /\ AllowedHost(given.host) /\ ValidId(ret.video_id))

Canonical(u) ==
  /\ u.scheme = "https" /\ u.host = "www.youtube.com" /\ u.path = <<WatchSeg>>
  /\ Len(u.query) = 1 /\ u.query[1].key = KeyV /\ ValidId(u.query[1].value)

\* C28: normalize_url succeeds exactly on the URLs parse_url accepts and
\* returns the canonical form for the identifier parse_url extracts;
\* normalizing the result returns it unchanged, parsing it gives the
\* identifier of the original, and Ydl::normalized_url returns the same
\* form for the instance's identifier.
C28_NormalizeIsCanonical ==
  /\ pc = "normalized" =>
       /\ ret.ok <=> parse_url(given).ok
       /\ ret.ok => /\ Canonical(ret.url)
                    /\ ret.url.query[1].value = parse_url(given).id
  /\ (pc = "return" /\ call.fn = "normalize_url twice") =>
       (ret.ok /\ ret.url = call.once)
  /\ (pc = "return" /\ call.fn = "parse_url of normalized") =>
       (ret.ok /\ ret = parse_url(call.url))
  /\ call.fn = "normalized_url" =>
       /\ Canonical(call.out)
       /\ call.out.query[1].value = ret.video_id
       /\ call.out = normalize_url(given).url

\* https://m.youtube.com/watch?v=dQw4w9WgXcQ&t=10s has been normalized
\* twice.
C28_Witness ==
  /\ pc = "return"
  /\ call.fn = "normalize_url twice"
  /\ given = UrlString("https", "m.youtube.com", <<WatchSeg>>,
                       <<Param(KeyV, Id1), Param(KeyT, TenSeconds)>>)
  /\ ret.ok
  /\ ret.url = UrlString("https", "www.youtube.com", <<WatchSeg>>, <<Param(KeyV, Id1)>>)

\* The calls of discover_tracks so far: each starts with a request through
\* the first client profile.
Discoveries == Len(SelectSeq(issued, LAMBDA q : q = "TvEmbedded"))

\* The calls of download_content so far: each starts with the InnerTube
\* step or, for a track without URL, with the synthesized URL.
Downloads ==
  Cardinality({i \in 1..Len(fetched) :
                 \/ fetched[i].step = "innertube"
                 \/ fetched[i].step = "fallback" /\ (i = 1 \/ fetched[i - 1].step # "direct")})

\* C29: when subtitles(types) has returned Ok, discovery and download ran
\* exactly once each, and the list holds one result per requested format,
\* in request order, tagged with that format and with the language of the
\* selected track; when it has returned an error after the download, again
\* with one discovery and one download, no list is returned.
C29_OneFetchManyFormats ==
  /\ Discoveries <= 1 /\ Downloads <= 1
  /\ pc = "done" =>
       /\ Discoveries = 1 /\ Downloads = 1
       /\ Len(output) = 1
       /\ Len(output[1]) = Len(given)
       /\ \A i \in 1..Len(given) :
            /\ output[1][i].format = given[i]
            /\ output[1][i].language = selected[1].language_code
  /\ (pc = "failed" /\ raw_content # <<>>) =>
       (Discoveries = 1 /\ Downloads = 1 /\ output = <<>> /\ error # "")
  /\ (pc \in {"done", "failed"} /\ raw_content # <<>> /\ given # <<>>) =>
       (pc = "failed" <=>
          ~process_content(raw_content, given[1], selected[1].language_code,
                           options.clean_content, options.validate_timing).ok)

\* Two formats were asked for and two results returned, the download
\* having succeeded at its second request.
C29_Witness ==
  /\ pc = "done"
  /\ given = <<Json, Srt>>
  /\ Len(output[1]) = 2
  /\ output[1][1].format = Json
  /\ Len(fetched) = 2
  /\ Len(issued) >= 2

\* The call of the XML parser or of format detection that returned.
ParseReturned(fn) == pc = "return" /\ call.fn = fn

\* The lines of a document that are an element of the paragraph schema with
\* text (on one line, not blank), and those of the legacy schema.
ParagraphLines(ls) ==
  SelectSeq(ls, LAMBDA l : l # <<>> /\ l[1] = Open("p", l[1].t) /\ ~HasAtom(l, NL)
                            /\ \E i \in 1..Len(l) : l[i].k = "word")
LegacyLines(ls) == SelectSeq(ls, LAMBDA l : l # <<>> /\ l[1] = Open("text", l[1].t))

\* C31: the legacy <text> schema is used only if the paragraph schema gave
\* no entry: a document with a paragraph that has text gives exactly one
\* entry for each such paragraph, in order and at its start offset, and
\* none for its <text> elements; only a document without one gives the
\* entries of its <text> elements.
C31_LegacyOnlyIfNoParagraph ==
  ParseReturned("parse_youtube_xml_content") =>
    LET ps == ParagraphLines(call.lines)
        ts == LegacyLines(call.lines)
        from == IF ps # <<>> THEN ps ELSE ts
    IN /\ ret.ok <=> from # <<>>
       /\ Len(ret.entries) = Len(from)
       /\ \A i \in 1..Len(ret.entries) : ret.entries[i].start = from[i][1].t[1]

\* A document with elements of both schemas was parsed.
C31_Witness ==
  /\ ParseReturned("parse_youtube_xml_content")
  /\ ParagraphLines(call.lines) # <<>>
  /\ LegacyLines(call.lines) # <<>>
  /\ ret.ok

\* The parser that the ordered signatures of a document select.
Selected(content) ==
  IF HasAtom(content, Word("WEBVTT")) THEN "vtt"
  ELSE IF HasAtom(content, Word("<?xml")) \/ HasAtom(content, Word("<transcript")) THEN "xml"
  ELSE IF TimeIsMatch(content, ",") THEN "srt"
  ELSE IF HasAtom(content, Arrow) THEN "vtt"
  ELSE "plain"

\* What the parser called name returns for a document.
Run(name, content) ==
  CASE name = "vtt" -> parse_vtt_content(content)
    [] name = "xml" -> parse_youtube_xml_content(content)
    [] name = "srt" -> parse_srt_content(content)
    [] OTHER -> parse_plain_text_content(content)

\* C32: detection returns what the first parser selected by signature
\* (header token, XML prolog or root, comma-decimal timing pair, bare arrow,
\* else plain lines) returns for the document, its failure included.
C32_FirstSignatureWins ==
  ParseReturned("parse_subtitle_content") =>
    ret = Run(Selected(call.content), call.content)

\* A document with the signatures of two formats failed in the parser the
\* first one selects although a later parser accepts it.
C32_Witness ==
  /\ ParseReturned("parse_subtitle_content")
  /\ HasAtom(call.content, Word("WEBVTT"))
  /\ HasAtom(call.content, Word("<?xml"))
  /\ ~ret.ok
  /\ parse_youtube_xml_content(call.content).ok


\* A text the sanitizer changes by its entity step alone: no '<', no
\* whitespace.
EntitiesOnly(text) ==
  \A i \in 1..Len(text) : ~IsSpace(text[i]) /\ text[i] # Word("<")

\* C33: for every text, the entity step of the sanitizer gives what
\* html_escape::decode_html_entities gives.
C33_SameDecoding ==
  pc = "decoded" =>
    \A i \in 1..Len(given) :
      EntitiesOnly(given[i].text) => ret.entries[i].text = ret.decoded[i]

\* The character of a reference of the sanitizer's set, "" for any other
\* atom.
CharOf(name) ==
  CASE name = Word("lt;") -> "<"
    [] name = Word("gt;") -> ">"
    [] name = Word("amp;") -> "&"
    [] name = Word("quot;") -> "\""
    [] name = Word("#39;") -> "'"
    [] OTHER -> ""

\* A reference of the sanitizer's set stands at the head of s.
RefAtHead(s) == Len(s) >= 2 /\ s[1] = Word("&") /\ CharOf(s[2]) # ""

\* Every reference that stands in s replaced by its character, in one pass.
RECURSIVE DecodedOnce(_)
DecodedOnce(s) ==
  IF s = <<>> THEN <<>>
  ELSE IF RefAtHead(s) THEN <<Word(CharOf(s[2]))>> \o DecodedOnce(SubSeq(s, 3, Len(s)))
  ELSE <<Head(s)>> \o DecodedOnce(Tail(s))

\* The texts got from s by replacing some of its references, or none.
RECURSIVE DecodedFurther(_)
DecodedFurther(s) ==
  IF s = <<>> THEN {<<>>}
  ELSE {<<Head(s)>> \o r : r \in DecodedFurther(Tail(s))}
         \cup (IF RefAtHead(s)
               THEN {<<Word(CharOf(s[2]))>> \o r : r \in DecodedFurther(SubSeq(s, 3, Len(s)))}
               ELSE {})

\* Text without whitespace at either end, without a line feed and without
\* two spaces in a row.
Normalised(s) ==
  /\ s # <<>> => ~IsSpace(s[1]) /\ ~IsSpace(s[Len(s)])
  /\ \A i \in 1..Len(s) : s[i] # NL /\ (i > 1 /\ s[i] = SP => s[i - 1] # SP)

\* C35: the sanitizer returns as many entries, in the same order and with
\* the same offsets; each text is the given one with its tags removed, its
\* whitespace runs made one space and trimmed, and every reference that
\* stands in it replaced by its character (a reference that the
\* replacement itself writes may be replaced too).
C35_OnlyTextChanges ==
  (pc \in {"return", "decoded"} /\ call.fn = "clean_subtitle_entries") =>
    /\ Len(ret.entries) = Len(call.entries)
    /\ \A i \in 1..Len(ret.entries) :
         LET before == call.entries[i]
             after == ret.entries[i]
             plain == CollapseSpace(Trim(StripTags(before.text)))
         IN /\ after.start = before.start
            /\ after.end = before.end
            /\ Normalised(after.text)
            /\ after.text \in DecodedFurther(DecodedOnce(plain))

\* '<b>Hello</b>, &amp; world!' came back as 'Hello, & world!', second of
\* two entries.
C35_Witness ==
  /\ pc = "return" /\ call.fn = "clean_subtitle_entries"
  /\ Len(call.entries) = 2
  /\ call.entries[1].text = <<SP, Word("a"), SP, NL, Word("b"), SP>>
  /\ HasAtom(call.entries[2].text, Word("/b"))
  /\ ret.entries[1].text = <<Word("a"), SP, Word("b")>>
  /\ ret.entries[2].text = <<Word("Hello"), Word(","), SP, Word("&"), SP, Word("world!")>>


\* C34: discover_tracks, download_content and process_content write no
\* file, whatever the build configuration.
C34_NoFileWritten == files = {}

\* C36: the filtering and the selection of a call use the options the
\* downloader holds when it is made, those set by with_language and
\* with_auto_generated included: discover_tracks returns what filter_tracks
\* gives under self.options, and the selected track is the best one under
\* them.
C36_SettersTakeEffect ==
  Returned =>
    /\ discovered = filter_tracks(tracks, options)
    /\ selected = IF discovered.ok THEN select_best_track(discovered.tracks, options)
                  ELSE <<>>

\* C37: discover_tracks returns Ok only with tracks, and no error but
\* NoSubtitlesAvailable and OnlyAutoGenerated, whatever its requests met; so
\* Ydl::subtitle goes on to the download whenever discovery succeeds, and
\* has_subtitles is TRUE exactly then.
C37_OkNeverEmpty ==
  Returned =>
    /\ discovered.ok => discovered.tracks # <<>>
    /\ ~discovered.ok => discovered.err \in {NoSubtitlesAvailable, OnlyAutoGenerated}
    /\ discovered.ok => (pc = "download" /\ selected # <<>> /\ error = "")
    /\ has_subtitles(discovered) <=> discovered.ok

\* Discovery met a rate limit, a transport failure and a failing status in
\* its last three strategies, and returned NoSubtitlesAvailable.
C37_Witness ==
  /\ Returned /\ ~discovered.ok
  /\ discovered.err = NoSubtitlesAvailable
  /\ outcome[2] = RateLimited
  /\ outcome[3] = Network
  /\ outcome[4] = SubtitleDiscoveryError

\* An attempt stands at its first request: the first client profile of the
\* first strategy, with nothing discovered, selected or fetched.
AtFirstRequest ==
  /\ pc = "innertube" /\ client_idx = 1
  /\ issued = <<>> /\ tracks = <<>>
  /\ \A k \in 1..4 : outcome[k] = "untried" /\ yielded[k] = <<>>
  /\ discovered = Pending /\ selected = <<>>
  /\ fetched = <<>> /\ raw_content = <<>>

\* What an attempt holds comes from the answers it got itself: its first
\* request went to the first profile, its tracks are those its strategies
\* returned, the selected track is one of those its discovery returned, and
\* the content is the body of its own last caption request.
OwnResponsesOnly ==
  wrapped =>
    /\ issued # <<>> => issued[1] = clients[1]
    /\ tracks = yielded[1] \o yielded[2] \o yielded[3] \o yielded[4]
    /\ selected # <<>> =>
         /\ discovered.ok /\ selected[1] \in Elems(discovered.tracks)
         /\ Elems(discovered.tracks) \subseteq Elems(tracks)
    /\ fetched # <<>> => selected # <<>>
    /\ raw_content # <<>> => (fetched # <<>> /\ fetched[Len(fetched)].res = "content")

\* C38: every attempt of subtitle_with_retry, the first and each one after a
\* sleep, starts at the first request of discovery with nothing kept from
\* the attempt before, and all it holds later comes from its own answers.
C38_EveryAttemptFromScratch ==
  /\ []OwnResponsesOnly
  /\ [][(wrapped' /\ pc \in {"start", "sleep"} /\ pc' # pc) => AtFirstRequest']_vars

\* A first attempt found a track and failed in the download with a transport
\* error; the second one discovered, fetched with one request and returned.
C38_Witness ==
  /\ wrapped /\ pc = "done"
  /\ Len(Attempts) = 2
  /\ Attempts[1].err = Network
  /\ Len(fetched) = 1
  /\ Len(issued) = 1

\* C39: once subtitle_with_retry is called it returns, with a result or an
\* error, whatever its attempts meet.
C39_Returns == wrapped ~> Over

\* The upstream answered every attempt with a retryable error: the call slept
\* max_retries times and returned the last error.
C39_Witness ==
  /\ wrapped
  /\ pc = "failed"
  /\ max_retries = MaxRetries
  /\ retries = max_retries
  /\ is_retryable(error)
  /\ Len(SelectSeq(trail, LAMBDA e : e.ev = "sleep")) = max_retries
  /\ Len(SelectSeq(trail, LAMBDA e : e.ev = "attempt")) = max_retries + 1

====
